---- MODULE Spec2Model ----
(***************************************************************************)
(* Pinhole: server-driven UI protocol.                                     *)
(*                                                                         *)
(* The module models                                                       *)
(*   - the server session engine (pinhole-framework: handle_connection,    *)
(*     handle_request, Context, Application::route, RoutePattern),         *)
(*   - the client session engine (pinhole-client: session_loop) and        *)
(*   - the client StorageManager (pinhole-client: storage.rs).             *)
(*                                                                         *)
(* Each side is checked against an arbitrary peer: the server reads any    *)
(* sequence of requests, the client receives any sequence of frames.       *)
(***************************************************************************)
EXTENDS Integers, Sequences, FiniteSets, TLC

\* ------------------------------------------------------------------ bounds
\* requests one server connection reads before the model stops feeding it
MaxRequests == 3
\* commands waiting in the client's command channel
MaxQueued == 2
\* requests each of two concurrent server connections reads
MaxPairRequests == 2

\* ---------------------------------------------------------------- state
VARIABLES
    \* server, one entry per connection
    active,          \* the connections the accept loop has handed to handle_connection
    req_budget,      \* requests the peer sends on one connection
    srv_pc,          \* position of handle_connection, per connection
    capabilities,    \* handle_connection's `capabilities`
    message_count,   \* handle_connection's `message_count`
    request,         \* the request being handled
    context,         \* the Context handed to the action handler
    script,          \* the steps the running action handler has still to perform
    result,          \* handle_request's `result`
    stream_broken,   \* the peer reset the stream: every later write fails
    sent,            \* frames written since the current request was read
    first_frame,     \* the first frame ever written on the connection
    hello_seen,      \* a ClientHello has been read on the connection
    hello_first,     \* the first request read on the connection was a ClientHello
    prev,            \* the previous request and the frames written for it
    \* receive_client_message reading one frame from a byte stream
    rd_pc,           \* position of receive_client_message and of its caller's match
    rd_frame,        \* what the peer put on the stream: its length prefix and payload
    rd_stream,       \* the bytes of the stream not yet read, up to its end
    rd_bytes,        \* the four-byte buffer of the length prefix
    rd_buffer,       \* the payload buffer: its length and the bytes read into it
    rd_result,       \* what receive_client_message returned
    \* RoutePattern::matches called on one pattern and one path
    rt_pattern,      \* the string RoutePattern::new was given
    rt_path,         \* the path handed to matches
    rt_result,       \* what matches returned
    \* client StorageManager
    storage_manager, \* the StorageManager's maps and current_route
    disk,            \* the files of the storage directory
    sm_op,           \* the last StorageManager call: its arguments, receiver and result
    \* client session task
    cl_pc,           \* position of session_loop
    current_path,    \* session_loop's `current_path`
    commands,        \* the command channel
    handles_alive,   \* some NetworkSession handle (command sender) still exists
    subscribers,     \* the event broadcast channel has a receiver
    cl_step,         \* the step session_loop took last
    cl_sent,         \* frames session_loop wrote in that step
    events,          \* events session_loop broadcast in that step
    cl_first_frame,  \* the first frame written on the current connection
    server_hello_seen, \* a ServerHello has been read on the current connection
    cl_received,     \* the frame session_loop read in its last step, if it read one
    call_failed      \* the last load() or action() call returned Err

server_vars == <<active, req_budget, srv_pc, capabilities, message_count, request, context,
                 script, result, stream_broken, sent, first_frame, hello_seen,
                 hello_first, prev>>

storage_vars == <<storage_manager, disk, sm_op>>

client_vars == <<cl_pc, current_path, commands, handles_alive, subscribers,
                 cl_step, cl_sent, events, cl_first_frame, server_hello_seen,
                   cl_received, call_failed>>

reader_vars == <<rd_pc, rd_frame, rd_stream, rd_bytes, rd_buffer, rd_result>>

router_vars == <<rt_pattern, rt_path, rt_result>>

vars == <<server_vars, storage_vars, client_vars, reader_vars, router_vars>>

\* ------------------------------------------------------------ shared values
\* Option<T>: None is the empty sequence, Some(x) the one-element sequence
None == <<>>
Some(x) == <<x>>

\* StateValue (the variants the storage code handles)
SString(s) == [kind |-> "String", s |-> s]
SBoolean(b) == [kind |-> "Boolean", s |-> b]
SEmpty == [kind |-> "Empty", s |-> ""]

\* StateMap: a function from a finite set of keys to StateValue
EmptyMap == [k \in {} |-> SEmpty]

\* HashMap::insert
MapInsert(m, k, v) == [x \in (DOMAIN m) \cup {k} |-> IF x = k THEN v ELSE m[x]]

\* HashMap::extend(other): every entry of other is inserted, overwriting
MapExtend(m, other) ==
    [x \in (DOMAIN m) \cup (DOMAIN other) |-> IF x \in DOMAIN other THEN other[x] ELSE m[x]]

Min(S) == CHOOSE x \in S : \A y \in S : x <= y

\* ------------------------------------------------------------ capabilities
CORE_V1 == "pinhole:core:v1"
STORAGE_ARRAYS == "pinhole:storage:arrays"
PSEUDO_CLASSES == "pinhole:stylesheet:pseudo-classes"

\* the capability sets a peer may offer in ClientHello
OfferedSets == {{}, {CORE_V1}, {STORAGE_ARRAYS}, {CORE_V1, PSEUDO_CLASSES}}

supported_capabilities == {CORE_V1}

\* intersect answering with everything either side knows
intersect_union(self, other) == self \cup other

\* CapabilitySet::intersect
intersect(self, other) == {x \in self : x \in other}

\* ------------------------------------------------------------ route matching
\* A path or pattern string is modelled by its split('/') image: "/todos/42"
\* is <<"", "todos", "42">>, "/hello/" is <<"", "hello", "">>.
HelloPath == <<"", "hello">>
HelloSlashPath == <<"", "hello", "">>
CounterPath == <<"", "counter">>
RedirectPath == <<"", "redirect">>
ErrorPath == <<"", "error">>
GatedPath == <<"", "gated">>
MultiPath == <<"", "multi">>
TodoPattern == <<"", "todos", ":id">>
Todo42Path == <<"", "todos", "42">>
TodoNewPath == <<"", "todos", "new">>
MissingPath == <<"", "nonexistent">>

\* str::strip_prefix(':') on the segments that occur in patterns
ParamNames == (":id" :> "id") @@ (":comment_id" :> "comment_id")

FilterNonEmpty(segs) == SelectSeq(segs, LAMBDA s : s # "")

\* RoutePattern::new
RoutePatternNew(pattern) ==
    LET f == FilterNonEmpty(pattern)
    IN [pattern |-> pattern,
        segments |-> [i \in 1..Len(f) |->
            IF f[i] \in DOMAIN ParamNames
            THEN [kind |-> "Param", name |-> ParamNames[f[i]]]
            ELSE [kind |-> "Literal", name |-> f[i]]]]

NoMatch == [matched |-> FALSE, params |-> <<>>]

\* a matcher whose map keeps the first value inserted under a name
matches_first_occurrence(self, path) ==
    LET path_segments == FilterNonEmpty(path)
        n == Len(self.segments)
    IN IF Len(path_segments) # n THEN NoMatch
       ELSE IF \E i \in 1..n : /\ self.segments[i].kind = "Literal"
                               /\ self.segments[i].name # path_segments[i]
            THEN NoMatch
            ELSE LET names == {self.segments[i].name :
                                 i \in {j \in 1..n : self.segments[j].kind = "Param"}}
                     first(nm) == CHOOSE i \in 1..n :
                                    /\ self.segments[i].kind = "Param"
                                    /\ self.segments[i].name = nm
                                    /\ \A j \in 1..n :
                                         (self.segments[j].kind = "Param"
                                          /\ self.segments[j].name = nm) => i <= j
                 IN [matched |-> TRUE,
                     params |-> [nm \in names |-> path_segments[first(nm)]]]

\* RoutePattern::matches
matches(self, path) ==
    LET path_segments == FilterNonEmpty(path)
        n == Len(self.segments)
    IN IF Len(path_segments) # n THEN NoMatch
       ELSE IF \E i \in 1..n : /\ self.segments[i].kind = "Literal"
                               /\ self.segments[i].name # path_segments[i]
            THEN NoMatch
            ELSE LET names == {self.segments[i].name :
                                 i \in {j \in 1..n : self.segments[j].kind = "Param"}}
                     last(nm) == CHOOSE i \in 1..n :
                                   /\ self.segments[i].kind = "Param"
                                   /\ self.segments[i].name = nm
                                   /\ \A j \in 1..n :
                                        (self.segments[j].kind = "Param"
                                         /\ self.segments[j].name = nm) => j <= i
                 IN [matched |-> TRUE,
                     params |-> [nm \in names |-> path_segments[last(nm)]]]

\* ------------------------------------------------------------ application
\* The application under test: the routes of the integration tests' TestApp
\* plus a parameterised route and two routes that exercise every Context
\* helper.  Declaration order is the order of this sequence.
Routes == <<"hello", "counter", "redirect", "error", "todo_new", "todo", "gated", "multi">>

RoutePathOf(r) ==
    CASE r = "hello" -> HelloPath
      [] r = "counter" -> CounterPath
      [] r = "redirect" -> RedirectPath
      [] r = "error" -> ErrorPath
      [] r = "todo_new" -> TodoNewPath
      [] r = "todo" -> TodoPattern
      [] r = "gated" -> GatedPath
      [] r = "multi" -> MultiPath

NoRoute == [found |-> FALSE, route |-> "", params |-> <<>>]

\* a lookup that keeps searching and returns the last declared route that matches
route_last_match(path) ==
    LET hits == {i \in 1..Len(Routes) :
                   matches(RoutePatternNew(RoutePathOf(Routes[i])), path).matched}
    IN IF hits = {} THEN NoRoute
       ELSE LET i == CHOOSE x \in hits : \A y \in hits : y <= x
            IN [found |-> TRUE, route |-> Routes[i],
                params |-> matches(RoutePatternNew(RoutePathOf(Routes[i])), path).params]

\* Application::route: the first declared route whose pattern matches
route(path) ==
    LET hits == {i \in 1..Len(Routes) :
                   matches(RoutePatternNew(RoutePathOf(Routes[i])), path).matched}
    IN IF hits = {} THEN NoRoute
       ELSE LET i == Min(hits)
            IN [found |-> TRUE, route |-> Routes[i],
                params |-> matches(RoutePatternNew(RoutePathOf(Routes[i])), path).params]

\* str::parse::<i32> and i32::to_string on the counter values used
ParseCount(storage) ==
    IF "count" \in DOMAIN storage /\ storage["count"].kind = "String"
    THEN CASE storage["count"].s = "0" -> 0
           [] storage["count"].s = "1" -> 1
           [] storage["count"].s = "2" -> 2
           [] OTHER -> 0
    ELSE 0

CountToString(n) ==
    CASE n = 0 -> "0" [] n = 1 -> "1" [] n = 2 -> "2" [] OTHER -> "3"

\* Route::render of each route
RenderOf(r, params, storage) ==
    CASE r = "hello" -> [kind |-> "Document", document |-> <<"Hello from real server!">>, path |-> <<>>]
      [] r = "counter" -> [kind |-> "Document",
                           document |-> <<"Count: ", CountToString(ParseCount(storage))>>,
                           path |-> <<>>]
      [] r = "redirect" -> [kind |-> "RedirectTo", document |-> <<>>, path |-> HelloPath]
      [] r = "error" -> [kind |-> "Document", document |-> <<"This shouldn't be reached">>, path |-> <<>>]
      [] r = "todo_new" -> [kind |-> "Document", document |-> <<"New todo">>, path |-> <<>>]
      [] r = "todo" -> [kind |-> "Document", document |-> <<"Todo ", params["id"]>>, path |-> <<>>]
      [] r = "gated" -> [kind |-> "Document", document |-> <<"Gated">>, path |-> <<>>]
      [] r = "multi" -> [kind |-> "Document", document |-> <<"Multi">>, path |-> <<>>]

\* Route::action of each route, as the list of steps the handler performs.
\* Every helper call is followed by `?`: a failing step ends the handler with
\* that error.
OpStore(scope, key, value) == [op |-> "store", scope |-> scope, key |-> key, value |-> value]
OpRedirect(path) == [op |-> "redirect", path |-> path]
OpAssert(capability) == [op |-> "assert_capability", capability |-> capability]
OpFail(error) == [op |-> "fail", error |-> error]

HandlerScript(r, action, storage) ==
    CASE r = "counter" /\ action = "increment" ->
            <<OpStore("Session", "count", SString(CountToString(ParseCount(storage) + 1)))>>
      [] r = "error" /\ action = "trigger_error" ->
            <<OpFail(<<"Intentional error from action">>)>>
      [] r = "error" /\ action = "store_then_error" ->
            <<OpStore("Session", "success", SBoolean("true")),
              OpFail(<<"Conditional error triggered">>)>>
      [] r = "gated" /\ action = "use_core" ->
            <<OpAssert(CORE_V1), OpStore("Local", "gated", SBoolean("true"))>>
      [] r = "gated" /\ action = "use_arrays" ->
            <<OpStore("Local", "tried", SBoolean("true")), OpAssert(STORAGE_ARRAYS),
              OpStore("Local", "gated", SBoolean("true"))>>
      [] r = "multi" /\ action = "save_and_go" ->
            <<OpStore("Persistent", "saved", SString("x")),
              OpStore("Session", "step", SString("1")),
              OpRedirect(HelloPath)>>
      [] OTHER -> <<>>

\* ------------------------------------------------------------ wire messages
\* ClientToServerMessage
ClientHello(caps) == [type |-> "ClientHello", capabilities |-> caps]
Load(path, storage) == [type |-> "Load", path |-> path, storage |-> storage]
Action(path, action, storage) ==
    [type |-> "Action", path |-> path, action |-> action, storage |-> storage]

\* ServerToClientMessage
ServerHello(caps) == [type |-> "ServerHello", capabilities |-> caps]
Render(document) == [type |-> "Render", document |-> document]
RedirectTo(path) == [type |-> "RedirectTo", path |-> path]
Store(scope, key, value) == [type |-> "Store", scope |-> scope, key |-> key, value |-> value]
Error(code, message) == [type |-> "Error", code |-> code, message |-> message]

NoRequest == [type |-> "NoRequest"]
NoFrame == [type |-> "NoFrame"]

\* the not-found text without the requested path
RouteNotFoundMessage_NoPath(path) == <<"Route not found: ">>

\* format!("Route not found: {}", path)
RouteNotFoundMessage(path) == <<"Route not found: ">> \o path
\* format!("Missing required capability: {}", capability)
MissingCapabilityMessage(capability) == <<"Missing required capability: ", capability>>
\* NetworkError::IoError(..).to_string()
IoErrorMessage == <<"IO error: ">>

\* the requests a peer may send to the server
CountOne == [k \in {"count"} |-> SString("1")]

LoadRequests ==
    {Load(p, EmptyMap) : p \in {HelloPath, HelloSlashPath, CounterPath, RedirectPath,
                                 Todo42Path, TodoNewPath, MissingPath}}
    \cup {Load(CounterPath, CountOne)}

ActionRequests ==
    {Action(CounterPath, "increment", EmptyMap),
     Action(CounterPath, "increment", CountOne),
     Action(HelloPath, "click", EmptyMap),
     Action(ErrorPath, "trigger_error", EmptyMap),
     Action(ErrorPath, "store_then_error", EmptyMap),
     Action(GatedPath, "use_core", EmptyMap),
     Action(GatedPath, "use_arrays", EmptyMap),
     Action(MultiPath, "save_and_go", EmptyMap),
     Action(MissingPath, "click", EmptyMap)}

HelloRequests == {ClientHello(caps) : caps \in OfferedSets}

Requests == HelloRequests \cup LoadRequests \cup ActionRequests

\* ------------------------------------------------------------ server state
ConnIds == {1, 2}

ResultOk == [ok |-> TRUE, error |-> <<>>]
ResultErr(e) == [ok |-> FALSE, error |-> e]
NoContext == [storage |-> EmptyMap, capabilities |-> {}]
NoPrev == [request |-> NoRequest, sent |-> <<>>]

ServerInitFor(conns, budget) ==
    /\ active = conns
    /\ req_budget = budget
    /\ srv_pc = [c \in ConnIds |-> IF c \in conns THEN "receive" ELSE "idle"]
    /\ capabilities = [c \in ConnIds |-> {}]
    /\ message_count = [c \in ConnIds |-> 0]
    /\ request = [c \in ConnIds |-> NoRequest]
    /\ context = [c \in ConnIds |-> NoContext]
    /\ script = [c \in ConnIds |-> <<>>]
    /\ result = [c \in ConnIds |-> ResultOk]
    /\ stream_broken = [c \in ConnIds |-> FALSE]
    /\ sent = [c \in ConnIds |-> <<>>]
    /\ first_frame = [c \in ConnIds |-> NoFrame]
    /\ hello_seen = [c \in ConnIds |-> FALSE]
    /\ hello_first = [c \in ConnIds |-> FALSE]
    /\ prev = [c \in ConnIds |-> NoPrev]

\* send_message_to_client succeeding: the frame is on the wire
Emit(c, frame) ==
    /\ sent' = [sent EXCEPT ![c] = Append(@, frame)]
    /\ first_frame' = [first_frame EXCEPT ![c] = IF @ = NoFrame THEN frame ELSE @]

Goto(c, pc) == srv_pc' = [srv_pc EXCEPT ![c] = pc]

\* a reader that takes the next request while the handler is still running
ReceiveMessage_Pipelined(c, req) ==
    /\ UNCHANGED <<storage_vars, client_vars, reader_vars, router_vars>>
    /\ srv_pc[c] \in {"receive", "handler"}
    /\ ~stream_broken[c]
    /\ message_count[c] < req_budget
    /\ request' = [request EXCEPT ![c] = req]
    /\ message_count' = [message_count EXCEPT ![c] = @ + 1]
    /\ prev' = [prev EXCEPT ![c] = [request |-> request[c], sent |-> sent[c]]]
    /\ sent' = [sent EXCEPT ![c] = <<>>]
    /\ hello_seen' = [hello_seen EXCEPT ![c] = @ \/ req.type = "ClientHello"]
    /\ hello_first' = [hello_first EXCEPT ![c] =
                         IF message_count[c] = 0 THEN req.type = "ClientHello" ELSE @]
    /\ result' = [result EXCEPT ![c] = ResultOk]
    /\ Goto(c, "handle_request")
    /\ UNCHANGED <<active, req_budget, capabilities, context, script,
                   stream_broken, first_frame>>

\* receive_client_message returns Ok(Some(req))
ReceiveMessage(c, req) ==
    /\ UNCHANGED <<storage_vars, client_vars, reader_vars, router_vars>>
    /\ srv_pc[c] = "receive"
    /\ ~stream_broken[c]
    /\ message_count[c] < req_budget
    /\ request' = [request EXCEPT ![c] = req]
    /\ message_count' = [message_count EXCEPT ![c] = @ + 1]
    /\ prev' = [prev EXCEPT ![c] = [request |-> request[c], sent |-> sent[c]]]
    /\ sent' = [sent EXCEPT ![c] = <<>>]
    /\ hello_seen' = [hello_seen EXCEPT ![c] = @ \/ req.type = "ClientHello"]
    /\ hello_first' = [hello_first EXCEPT ![c] =
                         IF message_count[c] = 0 THEN req.type = "ClientHello" ELSE @]
    /\ result' = [result EXCEPT ![c] = ResultOk]
    /\ Goto(c, "handle_request")
    /\ UNCHANGED <<active, req_budget, capabilities, context, script,
                   stream_broken, first_frame>>

\* receive_client_message returns Ok(None): zero length or end of stream
ReceiveEof(c) ==
    /\ UNCHANGED <<storage_vars, client_vars, reader_vars, router_vars>>
    /\ srv_pc[c] = "receive"
    /\ Goto(c, "closed_ok")
    /\ UNCHANGED <<active, req_budget, capabilities, message_count, request, context, script,
                   result, stream_broken, sent, first_frame, hello_seen, hello_first, prev>>

\* a connection loop that answers an unreadable request with an Error frame
\* and goes on reading
ReceiveError_Replies(c) ==
    /\ UNCHANGED <<storage_vars, client_vars, reader_vars, router_vars>>
    /\ srv_pc[c] = "receive"
    /\ ~stream_broken[c]
    /\ Emit(c, Error("BadRequest", IoErrorMessage))
    /\ Goto(c, "receive")
    /\ UNCHANGED <<active, req_budget, capabilities, message_count, request, context, script,
                   result, stream_broken, hello_seen, hello_first, prev>>

\* receive_client_message returns Err: IO error, oversized or undecodable frame
ReceiveError(c) ==
    /\ UNCHANGED <<storage_vars, client_vars, reader_vars, router_vars>>
    /\ srv_pc[c] = "receive"
    /\ Goto(c, "closed_err")
    /\ UNCHANGED <<active, req_budget, capabilities, message_count, request, context, script,
                   result, stream_broken, sent, first_frame, hello_seen, hello_first, prev>>

\* a ClientHello arm that adds the negotiated set to the set it already has
HandleClientHello_Accumulates(c) ==
    /\ UNCHANGED <<storage_vars, client_vars, reader_vars, router_vars>>
    /\ srv_pc[c] = "handle_request"
    /\ request[c].type = "ClientHello"
    /\ LET negotiated_capabilities == intersect(supported_capabilities, request[c].capabilities)
       IN IF stream_broken[c]
          THEN /\ Goto(c, "closed_err")
               /\ UNCHANGED <<capabilities, sent, first_frame>>
          ELSE /\ Emit(c, ServerHello(negotiated_capabilities))
               /\ capabilities' = [capabilities EXCEPT ![c] = @ \cup negotiated_capabilities]
               /\ Goto(c, "receive")
    /\ UNCHANGED <<active, req_budget, message_count, request, context, script, result,
                   stream_broken, hello_seen, hello_first, prev>>

\* a ClientHello arm that keeps one capability set for the whole server
HandleClientHello_Shared(c) ==
    /\ UNCHANGED <<storage_vars, client_vars, reader_vars, router_vars>>
    /\ srv_pc[c] = "handle_request"
    /\ request[c].type = "ClientHello"
    /\ LET negotiated_capabilities == intersect(supported_capabilities, request[c].capabilities)
       IN IF stream_broken[c]
          THEN /\ Goto(c, "closed_err")
               /\ UNCHANGED <<capabilities, sent, first_frame>>
          ELSE /\ Emit(c, ServerHello(negotiated_capabilities))
               /\ capabilities' = [d \in ConnIds |-> negotiated_capabilities]
               /\ Goto(c, "receive")
    /\ UNCHANGED <<active, req_budget, message_count, request, context, script, result,
                   stream_broken, hello_seen, hello_first, prev>>

\* a ClientHello arm that records the negotiated set without answering
HandleClientHello_Silent(c) ==
    /\ UNCHANGED <<storage_vars, client_vars, reader_vars, router_vars>>
    /\ srv_pc[c] = "handle_request"
    /\ request[c].type = "ClientHello"
    /\ capabilities' = [capabilities EXCEPT ![c] =
                          intersect(supported_capabilities, request[c].capabilities)]
    /\ Goto(c, "receive")
    /\ UNCHANGED <<active, req_budget, message_count, request, context, script, result,
                   stream_broken, sent, first_frame, hello_seen, hello_first, prev>>

\* handle_request, ClientHello arm
HandleClientHello(c) ==
    /\ UNCHANGED <<storage_vars, client_vars, reader_vars, router_vars>>
    /\ srv_pc[c] = "handle_request"
    /\ request[c].type = "ClientHello"
    /\ LET negotiated_capabilities == intersect(supported_capabilities, request[c].capabilities)
       IN IF stream_broken[c]
          THEN /\ Goto(c, "closed_err")
               /\ UNCHANGED <<capabilities, sent, first_frame>>
          ELSE /\ Emit(c, ServerHello(negotiated_capabilities))
               /\ capabilities' = [capabilities EXCEPT ![c] = negotiated_capabilities]
               /\ Goto(c, "receive")
    /\ UNCHANGED <<active, req_budget, message_count, request, context, script, result,
                   stream_broken, hello_seen, hello_first, prev>>

\* a reply path that writes the terminal frame twice
SendReply_Twice(c, frame) ==
    IF stream_broken[c]
    THEN /\ result' = [result EXCEPT ![c] = ResultErr(IoErrorMessage)]
         /\ Goto(c, "error_reply")
         /\ UNCHANGED <<sent, first_frame>>
    ELSE /\ sent' = [sent EXCEPT ![c] = Append(Append(@, frame), frame)]
         /\ first_frame' = [first_frame EXCEPT ![c] = IF @ = NoFrame THEN frame ELSE @]
         /\ result' = [result EXCEPT ![c] = ResultOk]
         /\ Goto(c, "receive")

\* the tail of a Load or unrouted Action arm: one send, its error mapped into `result`
SendReply(c, frame) ==
    IF stream_broken[c]
    THEN /\ result' = [result EXCEPT ![c] = ResultErr(IoErrorMessage)]
         /\ Goto(c, "error_reply")
         /\ UNCHANGED <<sent, first_frame>>
    ELSE /\ Emit(c, frame)
         /\ result' = [result EXCEPT ![c] = ResultOk]
         /\ Goto(c, "receive")

\* handle_request, Load arm
HandleLoad(c) ==
    /\ UNCHANGED <<storage_vars, client_vars, reader_vars, router_vars>>
    /\ srv_pc[c] = "handle_request"
    /\ request[c].type = "Load"
    /\ LET r == route(request[c].path)
       IN IF r.found
          THEN LET rendered == RenderOf(r.route, r.params, request[c].storage)
               IN IF rendered.kind = "Document"
                  THEN SendReply(c, Render(rendered.document))
                  ELSE SendReply(c, RedirectTo(rendered.path))
          ELSE SendReply(c, Error("NotFound", RouteNotFoundMessage(request[c].path)))
    /\ UNCHANGED <<active, req_budget, capabilities, message_count, request, context, script,
                   stream_broken, hello_seen, hello_first, prev>>

\* handle_request, Action arm up to the call of the handler
HandleAction(c) ==
    /\ UNCHANGED <<storage_vars, client_vars, reader_vars, router_vars>>
    /\ srv_pc[c] = "handle_request"
    /\ request[c].type = "Action"
    /\ LET r == route(request[c].path)
       IN IF r.found
          THEN /\ context' = [context EXCEPT ![c] = [storage |-> request[c].storage,
                                                      capabilities |-> capabilities[c]]]
               /\ script' = [script EXCEPT ![c] =
                               HandlerScript(r.route, request[c].action, request[c].storage)]
               /\ Goto(c, "handler")
               /\ UNCHANGED <<result, sent, first_frame>>
          ELSE /\ SendReply(c, Error("NotFound", RouteNotFoundMessage(request[c].path)))
               /\ UNCHANGED <<context, script>>
    /\ UNCHANGED <<active, req_budget, capabilities, message_count, request,
                   stream_broken, hello_seen, hello_first, prev>>

\* a handler step ends the handler with Err(e)
HandlerErr(c, e) ==
    /\ result' = [result EXCEPT ![c] = ResultErr(e)]
    /\ script' = [script EXCEPT ![c] = <<>>]
    /\ Goto(c, "error_reply")

\* a Context helper that sends one frame and propagates the wire error
HelperSend(c, frame) ==
    IF stream_broken[c]
    THEN /\ HandlerErr(c, IoErrorMessage)
         /\ UNCHANGED <<sent, first_frame>>
    ELSE /\ Emit(c, frame)
         /\ script' = [script EXCEPT ![c] = Tail(@)]
         /\ UNCHANGED <<result, srv_pc>>

\* Context::store
ContextStore(c) ==
    /\ UNCHANGED <<storage_vars, client_vars, reader_vars, router_vars>>
    /\ srv_pc[c] = "handler"
    /\ script[c] # <<>>
    /\ Head(script[c]).op = "store"
    /\ HelperSend(c, Store(Head(script[c]).scope, Head(script[c]).key, Head(script[c]).value))
    /\ UNCHANGED <<active, req_budget, capabilities, message_count, request, context,
                   stream_broken, hello_seen, hello_first, prev>>

\* Context::redirect
ContextRedirect(c) ==
    /\ UNCHANGED <<storage_vars, client_vars, reader_vars, router_vars>>
    /\ srv_pc[c] = "handler"
    /\ script[c] # <<>>
    /\ Head(script[c]).op = "redirect"
    /\ HelperSend(c, RedirectTo(Head(script[c]).path))
    /\ UNCHANGED <<active, req_budget, capabilities, message_count, request, context,
                   stream_broken, hello_seen, hello_first, prev>>

\* Context::assert_capability
ContextAssertCapability(c) ==
    /\ UNCHANGED <<storage_vars, client_vars, reader_vars, router_vars>>
    /\ srv_pc[c] = "handler"
    /\ script[c] # <<>>
    /\ Head(script[c]).op = "assert_capability"
    /\ LET capability == Head(script[c]).capability
       IN IF capability \notin context[c].capabilities
          THEN IF stream_broken[c]
               THEN /\ HandlerErr(c, IoErrorMessage)
                    /\ UNCHANGED <<sent, first_frame>>
               ELSE /\ Emit(c, Error("UpgradeRequired", MissingCapabilityMessage(capability)))
                    /\ HandlerErr(c, MissingCapabilityMessage(capability))
          ELSE /\ script' = [script EXCEPT ![c] = Tail(@)]
               /\ UNCHANGED <<result, srv_pc, sent, first_frame>>
    /\ UNCHANGED <<active, req_budget, capabilities, message_count, request, context,
                   stream_broken, hello_seen, hello_first, prev>>

\* the handler returns Err of its own
HandlerFail(c) ==
    /\ UNCHANGED <<storage_vars, client_vars, reader_vars, router_vars>>
    /\ srv_pc[c] = "handler"
    /\ script[c] # <<>>
    /\ Head(script[c]).op = "fail"
    /\ HandlerErr(c, Head(script[c]).error)
    /\ UNCHANGED <<active, req_budget, capabilities, message_count, request, context,
                   stream_broken, sent, first_frame, hello_seen, hello_first, prev>>

\* an Action arm that closes an Ok handler with a Render of the route
HandlerReturn_WithRender(c) ==
    /\ UNCHANGED <<storage_vars, client_vars, reader_vars, router_vars>>
    /\ srv_pc[c] = "handler"
    /\ script[c] = <<>>
    /\ result' = [result EXCEPT ![c] = ResultOk]
    /\ Emit(c, Render(<<"ok">>))
    /\ Goto(c, "receive")
    /\ UNCHANGED <<active, req_budget, capabilities, message_count, request, context, script,
                   stream_broken, hello_seen, hello_first, prev>>

\* the handler returns Ok(()): handle_request returns Ok(None)
HandlerReturn(c) ==
    /\ UNCHANGED <<storage_vars, client_vars, reader_vars, router_vars>>
    /\ srv_pc[c] = "handler"
    /\ script[c] = <<>>
    /\ result' = [result EXCEPT ![c] = ResultOk]
    /\ Goto(c, "receive")
    /\ UNCHANGED <<active, req_budget, capabilities, message_count, request, context, script,
                   stream_broken, sent, first_frame, hello_seen, hello_first, prev>>

\* an error path that drops the connection instead of reporting the error
SendErrorReply_Close(c) ==
    /\ UNCHANGED <<storage_vars, client_vars, reader_vars, router_vars>>
    /\ srv_pc[c] = "error_reply"
    /\ Goto(c, "closed_err")
    /\ UNCHANGED <<active, req_budget, capabilities, message_count, request, context, script,
                   result, stream_broken, sent, first_frame, hello_seen, hello_first, prev>>

\* handle_request: `if let Err(e) = result` sends Error{InternalServerError, e}
SendErrorReply(c) ==
    /\ UNCHANGED <<storage_vars, client_vars, reader_vars, router_vars>>
    /\ srv_pc[c] = "error_reply"
    /\ IF stream_broken[c]
       THEN /\ Goto(c, "closed_err")
            /\ UNCHANGED <<sent, first_frame>>
       ELSE /\ Emit(c, Error("InternalServerError", result[c].error))
            /\ Goto(c, "receive")
    /\ UNCHANGED <<active, req_budget, capabilities, message_count, request, context, script,
                   result, stream_broken, hello_seen, hello_first, prev>>

\* the peer resets the connection: writes fail from now on
PeerReset(c) ==
    /\ UNCHANGED <<storage_vars, client_vars, reader_vars, router_vars>>
    /\ srv_pc[c] \notin {"idle", "closed_ok", "closed_err"}
    /\ ~stream_broken[c]
    /\ stream_broken' = [stream_broken EXCEPT ![c] = TRUE]
    /\ UNCHANGED <<active, req_budget, srv_pc, capabilities, message_count, request, context,
                   script, result, sent, first_frame, hello_seen, hello_first, prev>>

ServerNext ==
    \/ \E c \in active, req \in Requests : ReceiveMessage(c, req)
    \/ \E c \in active : ReceiveEof(c)
    \/ \E c \in active : ReceiveError(c)
    \/ \E c \in active : HandleClientHello(c)
    \/ \E c \in active : HandleLoad(c)
    \/ \E c \in active : HandleAction(c)
    \/ \E c \in active : ContextStore(c)
    \/ \E c \in active : ContextRedirect(c)
    \/ \E c \in active : ContextAssertCapability(c)
    \/ \E c \in active : HandlerFail(c)
    \/ \E c \in active : HandlerReturn(c)
    \/ \E c \in active : SendErrorReply(c)
    \/ \E c \in active : PeerReset(c)

\* the requests two concurrent connections are fed
PairRequests ==
    {ClientHello({CORE_V1}), Load(CounterPath, CountOne), Load(CounterPath, EmptyMap),
     Action(GatedPath, "use_core", EmptyMap), Action(MultiPath, "save_and_go", EmptyMap),
     Action(ErrorPath, "trigger_error", EmptyMap)}

ServerPairNext ==
    \/ \E c \in active, req \in PairRequests : ReceiveMessage(c, req)
    \/ \E c \in active : ReceiveEof(c)
    \/ \E c \in active : ReceiveError(c)
    \/ \E c \in active : HandleClientHello(c)
    \/ \E c \in active : HandleLoad(c)
    \/ \E c \in active : HandleAction(c)
    \/ \E c \in active : ContextStore(c)
    \/ \E c \in active : ContextRedirect(c)
    \/ \E c \in active : ContextAssertCapability(c)
    \/ \E c \in active : HandlerFail(c)
    \/ \E c \in active : HandlerReturn(c)
    \/ \E c \in active : SendErrorReply(c)
    \/ \E c \in active : PeerReset(c)

\* ================================================================ frame reader
\* bytes a payload is encoded to (serde_cbor::to_vec(..).len())
PayloadLen == 3

MAX_MESSAGE_SIZE == 10 * 1024 * 1024

\* A byte of the stream is told apart by where it comes from: a byte of the
\* length prefix carries its value, a byte of a payload the payload and its
\* position in it.
PrefixByte(v) == [src |-> "prefix", v |-> v]
PayloadByte(payload, i) == [src |-> "payload", v |-> i, of |-> payload]
\* a byte of a buffer that no read has filled
ZeroByte == PrefixByte(0)

\* u32::to_le_bytes
to_le_bytes(n) ==
    <<PrefixByte(n % 256), PrefixByte((n \div 256) % 256),
      PrefixByte((n \div 65536) % 256), PrefixByte((n \div 16777216) % 256)>>

\* u32::from_le_bytes
from_le_bytes(bytes) ==
    bytes[1].v + 256 * bytes[2].v + 65536 * bytes[3].v + 16777216 * bytes[4].v

\* a payload that is not the encoding of any ClientToServerMessage
Garbage == [type |-> "Garbage"]

\* serde_cbor::to_vec: the bytes of a payload; different payloads have
\* different bytes, and no message's bytes start another's
Encode(payload) == [i \in 1..PayloadLen |-> PayloadByte(payload, i)]

\* the length prefixes a peer writes (the largest is 0x7FFFFFFF)
LengthPrefixes ==
    {0, PayloadLen, 513, MAX_MESSAGE_SIZE, MAX_MESSAGE_SIZE + 1,
     11 * 1024 * 1024, 2147483647}

\* the payloads a peer writes
Payloads == {Load(HelloPath, EmptyMap), ClientHello({CORE_V1}), Garbage}

\* what a peer puts on the stream before it closes it: the first
\* prefix_sent bytes of the prefix, then the first payload_sent of the payload
Frames ==
    {f \in [length : LengthPrefixes, prefix_sent : 0..4,
            payload : Payloads, payload_sent : 0..PayloadLen] :
        f.prefix_sent < 4 => (f.payload_sent = 0 /\ f.payload = Garbage)}

StreamOf(f) ==
    SubSeq(to_le_bytes(f.length), 1, f.prefix_sent)
        \o SubSeq(Encode(f.payload), 1, f.payload_sent)

\* Read::read into a buffer of buf_len bytes: 0 at the end of the stream,
\* otherwise any number of bytes from one up to what fits and is there
ReadSizes(buf_len, stream) ==
    IF stream = <<>> \/ buf_len = 0 THEN {0}
    ELSE 1..(IF buf_len < Len(stream) THEN buf_len ELSE Len(stream))

\* Result<Option<ClientToServerMessage>>
NoResult == [type |-> "NoResult"]
OkSome(req) == [type |-> "OkSome", request |-> req]
OkNone == [type |-> "OkNone"]
ErrIoError == [type |-> "IoError"]
ErrSerializationError == [type |-> "SerializationError"]
ErrMessageTooLarge(size, max) == [type |-> "MessageTooLarge", size |-> size, max |-> max]

\* a size check that lets a frame of any length through
validate_message_size_unchecked(length) == TRUE

\* validate_message_size: Ok or MessageTooLarge
validate_message_size(length) == ~(length > MAX_MESSAGE_SIZE)

NoBuffer == [len |-> 0, data |-> <<>>]

\* the buffer as from_slice sees it: the bytes read, then the zeros of resize
BufferByte(buffer, i) == IF i <= Len(buffer.data) THEN buffer.data[i] ELSE ZeroByte

\* the buffer holds exactly the bytes of the payload
Holds(buffer, payload) ==
    /\ buffer.len = Len(Encode(payload))
    /\ \A i \in 1..Len(Encode(payload)) : BufferByte(buffer, i) = Encode(payload)[i]

\* serde_cbor::from_slice::<ClientToServerMessage>: the message whose
\* encoding the buffer is, an error for every other content
from_slice(buffer) ==
    IF \E req \in Payloads \ {Garbage} : Holds(buffer, req)
    THEN OkSome(CHOOSE req \in Payloads \ {Garbage} : Holds(buffer, req))
    ELSE ErrSerializationError

\* no frame is being read
ReaderIdle ==
    /\ rd_pc = "idle"
    /\ rd_frame = [length |-> 0, prefix_sent |-> 0, payload |-> Garbage, payload_sent |-> 0]
    /\ rd_stream = <<>>
    /\ rd_bytes = <<ZeroByte, ZeroByte, ZeroByte, ZeroByte>>
    /\ rd_buffer = NoBuffer
    /\ rd_result = NoResult

\* handle_connection calls receive_client_message on a stream
ReaderInit ==
    /\ rd_pc = "read_prefix"
    /\ rd_frame \in Frames
    /\ rd_stream = StreamOf(rd_frame)
    /\ rd_bytes = <<ZeroByte, ZeroByte, ZeroByte, ZeroByte>>
    /\ rd_buffer = NoBuffer
    /\ rd_result = NoResult

\* handle_connection's match on the result
Return(r) ==
    /\ rd_result' = r
    /\ rd_pc' = CASE r.type = "OkSome" -> "handle_request"
                  [] r.type = "OkNone" -> "closed_ok"
                  [] OTHER -> "closed_err"

\* stream.read(&mut bytes).await? on the four-byte buffer: the count is dropped
ReadPrefix(n) ==
    /\ rd_pc = "read_prefix"
    /\ n \in ReadSizes(4, rd_stream)
    /\ rd_bytes' = [i \in 1..4 |-> IF i <= n THEN rd_stream[i] ELSE rd_bytes[i]]
    /\ rd_stream' = SubSeq(rd_stream, n + 1, Len(rd_stream))
    /\ rd_pc' = "check_length"
    /\ UNCHANGED <<rd_frame, rd_buffer, rd_result>>

\* either read returns an io::Error, which ? converts and returns
ReadFailed ==
    /\ rd_pc \in {"read_prefix", "read_payload"}
    /\ Return(ErrIoError)
    /\ UNCHANGED <<rd_frame, rd_stream, rd_bytes, rd_buffer>>

\* from_le_bytes, the zero test, validate_message_size, Vec::resize
CheckLength ==
    /\ rd_pc = "check_length"
    /\ LET request_length == from_le_bytes(rd_bytes)
       IN IF request_length > 0
          THEN IF validate_message_size(request_length)
               THEN /\ rd_buffer' = [len |-> request_length, data |-> <<>>]
                    /\ rd_pc' = "read_payload"
                    /\ UNCHANGED rd_result
               ELSE /\ Return(ErrMessageTooLarge(request_length, MAX_MESSAGE_SIZE))
                    /\ UNCHANGED rd_buffer
          ELSE /\ Return(OkNone)
               /\ UNCHANGED rd_buffer
    /\ UNCHANGED <<rd_frame, rd_stream, rd_bytes>>

\* stream.read(&mut bytes).await? on the payload buffer, then from_slice
ReadPayload(n) ==
    /\ rd_pc = "read_payload"
    /\ n \in ReadSizes(rd_buffer.len, rd_stream)
    /\ LET buffer == [rd_buffer EXCEPT !.data = SubSeq(rd_stream, 1, n)]
       IN /\ rd_buffer' = buffer
          /\ Return(from_slice(buffer))
    /\ rd_stream' = SubSeq(rd_stream, n + 1, Len(rd_stream))
    /\ UNCHANGED <<rd_frame, rd_bytes>>

ReaderNext ==
    \/ \E n \in 0..4 : ReadPrefix(n) /\ UNCHANGED <<server_vars, storage_vars, client_vars, router_vars>>
    \/ ReadFailed /\ UNCHANGED <<server_vars, storage_vars, client_vars, router_vars>>
    \/ CheckLength /\ UNCHANGED <<server_vars, storage_vars, client_vars, router_vars>>
    \/ \E n \in 0..(PayloadLen + 4) :
          ReadPayload(n) /\ UNCHANGED <<server_vars, storage_vars, client_vars, router_vars>>

\* ================================================================ route matcher
\* the pattern strings routes are declared with
Patterns ==
    {<<"", "">>, HelloPath, <<"", "about">>, TodoPattern, <<"", ":id">>,
     <<"", "todos", ":id", ":comment_id">>, <<"", "todos", ":id", ":id">>,
     <<"", "todos", ":id", "">>}

\* the paths requests carry
MatchPaths ==
    {<<"", "">>, HelloPath, HelloSlashPath, <<"", "Hello">>, <<"", "about">>,
     <<"", "About">>, <<"", "todos">>, Todo42Path, TodoNewPath,
     <<"", "todos", "42", "7">>, <<"", "todos", "42", "">>,
     <<"", "", "todos", "", "42">>, <<"", "todos", "42", "7", "x">>}

NotCalled == [matched |-> FALSE, params |-> <<>>, called |-> FALSE]

\* no pattern is being matched
RouterIdle ==
    /\ rt_pattern = <<>>
    /\ rt_path = <<>>
    /\ rt_result = NotCalled

\* a route is declared with a pattern and a request arrives with a path
RouterInit ==
    /\ rt_pattern \in Patterns
    /\ rt_path \in MatchPaths
    /\ rt_result = NotCalled

\* route.pattern().matches(path)
RouterMatch ==
    /\ ~rt_result.called
    /\ LET r == matches(RoutePatternNew(rt_pattern), rt_path)
       IN rt_result' = [matched |-> r.matched, params |-> r.params, called |-> TRUE]
    /\ UNCHANGED <<rt_pattern, rt_path>>

RouterNext == RouterMatch /\ UNCHANGED <<server_vars, storage_vars, client_vars, reader_vars>>

\* ============================================================ StorageManager
\* An origin is the sequence of its characters: "a:b.com".
OriginColon == <<"a", ":", "b", ".", "c", "o", "m">>
OriginAt == <<"a", "@", "b", ".", "c", "o", "m">>
\* two origins that sanitise to the same string
Origins == {OriginColon, OriginAt}

\* char::is_alphanumeric on the characters that occur in origins
Alphanumeric == {"a", "b", "c", "m", "o", "0", "1", "8"}

\* the character map of sanitize_origin and of load_persistent_storage
SanitiseChars(origin) ==
    [i \in 1..Len(origin) |->
        IF origin[i] \in Alphanumeric \/ origin[i] = "." \/ origin[i] = "-"
        THEN origin[i] ELSE "_"]

\* hex of Sha256(origin): one digest per origin, different origins different digests
Sha256Hex(origin) == origin

\* StorageManager::sanitize_origin: "<sanitised>-<sha256 hex>"
sanitize_origin(origin) == [sanitised |-> SanitiseChars(origin), hash |-> Sha256Hex(origin)]

\* StorageManager::get_persistent_file_path: "<sanitize_origin(origin)>.json"
get_persistent_file_path(origin) == [stem |-> sanitize_origin(origin), ext |-> "json"]

\* the path load_persistent_storage reads: "<sanitised>.json", no hash suffix
LoadFilePath(origin) ==
    [stem |-> [sanitised |-> SanitiseChars(origin), hash |-> <<>>], ext |-> "json"]

\* Path::with_extension
WithExtension(path, ext) == [path EXCEPT !.ext = ext]

\* the files of the storage directory the model distinguishes
FileNames(origin) ==
    {LoadFilePath(origin), get_persistent_file_path(origin),
     WithExtension(get_persistent_file_path(origin), "tmp")}

\* file contents
Absent == [state |-> "absent", map |-> <<>>]
Partial == [state |-> "partial", map |-> <<>>]
JsonFile(map) == [state |-> "json", map |-> map]

\* serde_json::Value
JNull == [json |-> "Null", s |-> ""]
JString(s) == [json |-> "String", s |-> s]
JBool(b) == [json |-> "Bool", s |-> b]
JNumber(n) == [json |-> "Number", s |-> n]

\* save_persistent_storage: StateValue to serde_json::Value
ToJson(value) ==
    CASE value.kind = "Empty" -> JNull
      [] value.kind = "String" -> JString(value.s)
      [] value.kind = "Boolean" -> JBool(value.s)

\* load_persistent_storage: the entries kept, every other JSON shape is skipped
FromJsonMap(json_map) ==
    [k \in {x \in DOMAIN json_map : json_map[x].json \in {"String", "Bool"}} |->
        IF json_map[k].json = "String" THEN SString(json_map[k].s) ELSE SBoolean(json_map[k].s)]

\* StorageManager::load_persistent_storage
load_persistent_storage(files, origin) ==
    LET file == files[LoadFilePath(origin)]
    IN CASE file.state = "absent" -> [ok |-> TRUE, map |-> EmptyMap]
         [] file.state = "partial" -> [ok |-> FALSE, map |-> EmptyMap]
         [] file.state = "json" -> [ok |-> TRUE, map |-> FromJsonMap(file.map)]

\* StorageManager::new_with_dir (the manager it returns when the load succeeds)
new_with_dir(files, origin) ==
    [persistent_storage |-> load_persistent_storage(files, origin).map,
     session_storage |-> EmptyMap,
     local_storage |-> EmptyMap,
     current_route |-> None,
     origin |-> origin]

\* the outcomes of the two file operations of save_persistent_storage
SaveOutcomes == {"ok", "open_failed", "write_failed", "rename_failed"}

\* a save that writes the persistent file in place, without a temp file
save_persistent_storage_in_place(self, files, outcome) ==
    LET file_path == get_persistent_file_path(self.origin)
        json_map == [k \in DOMAIN self.persistent_storage |-> ToJson(self.persistent_storage[k])]
    IN CASE outcome = "open_failed" -> [ok |-> FALSE, files |-> files]
         [] outcome = "write_failed" ->
               [ok |-> FALSE, files |-> [files EXCEPT ![file_path] = Partial]]
         [] outcome = "rename_failed" ->
               [ok |-> FALSE, files |-> [files EXCEPT ![file_path] = JsonFile(json_map)]]
         [] outcome = "ok" ->
               [ok |-> TRUE, files |-> [files EXCEPT ![file_path] = JsonFile(json_map)]]

\* StorageManager::save_persistent_storage: the files afterwards and Ok/Err
save_persistent_storage(self, files, outcome) ==
    LET file_path == get_persistent_file_path(self.origin)
        json_map == [k \in DOMAIN self.persistent_storage |-> ToJson(self.persistent_storage[k])]
        temp_path == WithExtension(file_path, "tmp")
    IN CASE outcome = "open_failed" -> [ok |-> FALSE, files |-> files]
         [] outcome = "write_failed" ->
               [ok |-> FALSE, files |-> [files EXCEPT ![temp_path] = Partial]]
         [] outcome = "rename_failed" ->
               [ok |-> FALSE, files |-> [files EXCEPT ![temp_path] = JsonFile(json_map)]]
         [] outcome = "ok" ->
               [ok |-> TRUE, files |-> [files EXCEPT ![temp_path] = Absent,
                                                      ![file_path] = JsonFile(json_map)]]

\* a store that puts the old persistent map back when the save fails
store_drops_on_failure(self, files, scope, key, value, outcome) ==
    CASE scope = "Persistent" ->
            LET inserted == [self EXCEPT !.persistent_storage = MapInsert(@, key, value)]
                saved == save_persistent_storage(inserted, files, outcome)
            IN [self |-> IF saved.ok THEN inserted ELSE self,
                files |-> saved.files, ok |-> saved.ok]
      [] scope = "Session" ->
            [self |-> [self EXCEPT !.session_storage = MapInsert(@, key, value)],
             files |-> files, ok |-> TRUE]
      [] scope = "Local" ->
            [self |-> [self EXCEPT !.local_storage = MapInsert(@, key, value)],
             files |-> files, ok |-> TRUE]

\* StorageManager::store: the manager and the files afterwards and Ok/Err
store(self, files, scope, key, value, outcome) ==
    CASE scope = "Persistent" ->
            LET inserted == [self EXCEPT !.persistent_storage = MapInsert(@, key, value)]
                saved == save_persistent_storage(inserted, files, outcome)
            IN [self |-> inserted, files |-> saved.files, ok |-> saved.ok]
      [] scope = "Session" ->
            [self |-> [self EXCEPT !.session_storage = MapInsert(@, key, value)],
             files |-> files, ok |-> TRUE]
      [] scope = "Local" ->
            [self |-> [self EXCEPT !.local_storage = MapInsert(@, key, value)],
             files |-> files, ok |-> TRUE]

\* a navigation that clears local storage whatever the current route is
navigate_to_always_clears(self, new_route) ==
    [self EXCEPT !.local_storage = EmptyMap, !.current_route = Some(new_route)]

\* StorageManager::navigate_to
navigate_to(self, new_route) ==
    IF self.current_route # Some(new_route)
    THEN [self EXCEPT !.local_storage = EmptyMap, !.current_route = Some(new_route)]
    ELSE self

\* a merge in which the oldest scope wins
get_all_storage_persistent_wins(self) ==
    MapExtend(MapExtend(MapExtend(EmptyMap, self.local_storage), self.session_storage),
              self.persistent_storage)

\* StorageManager::get_all_storage
get_all_storage(self) ==
    MapExtend(MapExtend(MapExtend(EmptyMap, self.persistent_storage), self.session_storage),
              self.local_storage)

\* StorageManager::clear_local_storage
clear_local_storage(self) == [self EXCEPT !.local_storage = EmptyMap]

\* StorageManager::clear_session_storage
clear_session_storage(self) == [self EXCEPT !.session_storage = EmptyMap]

\* StorageManager::clear_all_storage: the manager and the files afterwards and Ok/Err
clear_all_storage(self, files, outcome) ==
    LET cleared == [self EXCEPT !.persistent_storage = EmptyMap,
                                !.session_storage = EmptyMap,
                                !.local_storage = EmptyMap]
        saved == save_persistent_storage(cleared, files, outcome)
    IN [self |-> cleared, files |-> saved.files, ok |-> saved.ok]

\* --- the StorageManager driven through its public methods
\* the entries a caller stores
StoreInputs ==
    {[key |-> "k1", value |-> SString("a")],
     [key |-> "k1", value |-> SBoolean("true")],
     [key |-> "k1", value |-> SEmpty]}
Scopes == {"Persistent", "Session", "Local"}
StorageRoutes == {HelloPath, CounterPath}

\* the storage directory before the program first runs: empty, or holding a
\* file at the path load_persistent_storage reads
InitialDisks(origin) ==
    LET empty == [f \in FileNames(origin) |-> Absent]
    IN {empty,
        [empty EXCEPT ![LoadFilePath(origin)] =
            JsonFile(("k1" :> JString("a")) @@ ("k2" :> JNumber("42")))],
        [empty EXCEPT ![LoadFilePath(origin)] =
            JsonFile(("k1" :> JBool("true")) @@ ("k2" :> JNull))]}

NoArgs == [scope |-> "", key |-> "", value |-> SEmpty, route |-> None]
\* the last call made on the manager: its name, arguments and return value
SmCall(name, args, ret) == [name |-> name, args |-> args, ret |-> ret]
NoCall == SmCall("new_with_dir", NoArgs, EmptyMap)

\* no connection has been accepted
ServerIdle == ServerInitFor({}, 0)

\* the client is not running
ClientIdle ==
    /\ cl_pc = "idle"
    /\ current_path = None
    /\ commands = <<>>
    /\ handles_alive = FALSE
    /\ subscribers = FALSE
    /\ cl_step = "none"
    /\ cl_sent = <<>>
    /\ events = <<>>
    /\ cl_first_frame = NoFrame
    /\ server_hello_seen = FALSE
    /\ cl_received = NoFrame
    /\ call_failed = FALSE

StorageInit ==
    /\ ServerIdle
    /\ ClientIdle
    /\ ReaderIdle
    /\ RouterIdle
    /\ \E origin \in Origins :
          /\ disk \in InitialDisks(origin)
          /\ storage_manager = new_with_dir(disk, origin)
    /\ sm_op = NoCall

SmStore(scope, input, outcome) ==
    /\ scope # "Persistent" => outcome = "ok"
    /\ LET r == store(storage_manager, disk, scope, input.key, input.value, outcome)
       IN /\ storage_manager' = r.self
          /\ disk' = r.files
          /\ sm_op' = SmCall("store", [NoArgs EXCEPT !.scope = scope, !.key = input.key,
                                            !.value = input.value],
                             IF r.ok THEN EmptyMap ELSE ("Err" :> SEmpty))

SmNavigateTo(new_route) ==
    /\ storage_manager' = navigate_to(storage_manager, new_route)
    /\ sm_op' = SmCall("navigate_to", [NoArgs EXCEPT !.route = Some(new_route)], EmptyMap)
    /\ UNCHANGED disk

SmGetAllStorage ==
    /\ sm_op' = SmCall("get_all_storage", NoArgs,
                       get_all_storage(storage_manager))
    /\ UNCHANGED <<storage_manager, disk>>

SmClearLocalStorage ==
    /\ storage_manager' = clear_local_storage(storage_manager)
    /\ sm_op' = SmCall("clear_local_storage", NoArgs, EmptyMap)
    /\ UNCHANGED disk

SmClearSessionStorage ==
    /\ storage_manager' = clear_session_storage(storage_manager)
    /\ sm_op' = SmCall("clear_session_storage", NoArgs, EmptyMap)
    /\ UNCHANGED disk

SmClearAllStorage(outcome) ==
    /\ LET r == clear_all_storage(storage_manager, disk, outcome)
       IN /\ storage_manager' = r.self
          /\ disk' = r.files
          /\ sm_op' = SmCall("clear_all_storage", NoArgs,
                             IF r.ok THEN EmptyMap ELSE ("Err" :> SEmpty))

\* the process restarts: a new StorageManager for the same origin and directory
SmRestart ==
    /\ load_persistent_storage(disk, storage_manager.origin).ok
    /\ storage_manager' = new_with_dir(disk, storage_manager.origin)
    /\ sm_op' = NoCall
    /\ UNCHANGED disk

StorageNext ==
    \/ \E scope \in Scopes, input \in StoreInputs, outcome \in SaveOutcomes :
          SmStore(scope, input, outcome) /\ UNCHANGED <<server_vars, client_vars, reader_vars, router_vars>>
    \/ \E r \in StorageRoutes : SmNavigateTo(r) /\ UNCHANGED <<server_vars, client_vars, reader_vars, router_vars>>
    \/ SmGetAllStorage /\ UNCHANGED <<server_vars, client_vars, reader_vars, router_vars>>
    \/ SmClearLocalStorage /\ UNCHANGED <<server_vars, client_vars, reader_vars, router_vars>>
    \/ SmClearSessionStorage /\ UNCHANGED <<server_vars, client_vars, reader_vars, router_vars>>
    \/ \E outcome \in SaveOutcomes :
          SmClearAllStorage(outcome) /\ UNCHANGED <<server_vars, client_vars, reader_vars, router_vars>>
    \/ SmRestart /\ UNCHANGED <<server_vars, client_vars, reader_vars, router_vars>>

\* the StorageManager of a client that is not running
StorageIdle ==
    /\ disk = [f \in FileNames(OriginColon) |-> Absent]
    /\ storage_manager = new_with_dir(disk, OriginColon)
    /\ sm_op = NoCall

\* ============================================================ client session
\* NetworkSessionCommand
CommandLoad(path) == [type |-> "Load", path |-> path, action |-> "", storage |-> EmptyMap]
CommandAction(action, storage) ==
    [type |-> "Action", path |-> <<>>, action |-> action, storage |-> storage]

\* NetworkSessionEvent
DocumentUpdated(document) == [type |-> "DocumentUpdated", document |-> document]
ServerError(code, message) == [type |-> "ServerError", code |-> code, message |-> message]

\* ErrorCode::as_u16
as_u16(code) ==
    CASE code = "BadRequest" -> 400
      [] code = "NotFound" -> 404
      [] code = "UpgradeRequired" -> 426
      [] code = "InternalServerError" -> 500

\* what the application asks for
UiPaths == {HelloPath}
FormState == "k1" :> SString("form")
UiCommands == {CommandLoad(p) : p \in UiPaths} \cup {CommandAction("submit", FormState)}

\* what the server sends
InboundStores ==
    {Store("Session", "k1", SString("a")),
     Store("Persistent", "k1", SBoolean("true")),
     Store("Local", "k1", SEmpty)}
InboundErrors ==
    {Error("NotFound", RouteNotFoundMessage(MissingPath)),
     Error("UpgradeRequired", MissingCapabilityMessage(STORAGE_ARRAYS))}
InboundRedirects == {RedirectTo(CounterPath), RedirectTo(HelloPath)}
InboundRenders == {Render(<<"Hello from real server!">>)}

\* the storage directory when the session task starts
ClientDisks ==
    LET empty == [f \in FileNames(OriginColon) |-> Absent]
    IN {empty,
        [empty EXCEPT ![LoadFilePath(OriginColon)] = JsonFile("k1" :> JString("a"))],
        [empty EXCEPT ![LoadFilePath(OriginColon)] = Partial]}

ClientEnded == cl_pc \in {"ended_ok", "ended_err"}

\* NetworkSession::new has spawned session_loop, and session_loop has built
\* its StorageManager (or has returned the StorageError)
ClientInit ==
    /\ ServerIdle
    /\ ReaderIdle
    /\ RouterIdle
    /\ disk \in ClientDisks
    /\ storage_manager = new_with_dir(disk, OriginColon)
    /\ sm_op = NoCall
    /\ cl_pc = IF load_persistent_storage(disk, OriginColon).ok THEN "connect" ELSE "ended_err"
    /\ current_path = None
    /\ commands = <<>>
    /\ handles_alive = TRUE
    /\ subscribers = FALSE
    /\ cl_step = "new"
    /\ cl_sent = <<>>
    /\ events = <<>>
    /\ cl_first_frame = NoFrame
    /\ server_hello_seen = FALSE
    /\ cl_received = NoFrame
    /\ call_failed = FALSE

\* what a step of session_loop wrote and broadcast
Did(step, frames, evs) ==
    /\ cl_step' = step
    /\ cl_sent' = frames
    /\ events' = evs
    /\ cl_first_frame' = IF cl_first_frame = NoFrame /\ frames # <<>>
                         THEN frames[1] ELSE cl_first_frame
    /\ server_hello_seen' = (server_hello_seen \/ step = "RecvServerHello")
    /\ UNCHANGED call_failed

\* send_message_to_server: the frame is written, or the write fails and `?`
\* returns the error from session_loop
ClientSend(step, frame, ok, next_pc) ==
    IF ok
    THEN /\ Did(step, <<frame>>, <<>>)
         /\ cl_pc' = next_pc
    ELSE /\ Did(step, <<>>, <<>>)
         /\ cl_pc' = "ended_err"

\* a Load that relies on navigate_to alone to clear local storage
SendLoad_NavigateOnly(step, path, ok, next_pc) ==
    LET manager == navigate_to(storage_manager, path)
    IN /\ storage_manager' = manager
       /\ ClientSend(step, Load(path, get_all_storage(manager)), ok, next_pc)

\* navigate_to, clear_local_storage, get_all_storage, send Load
SendLoad(step, path, ok, next_pc) ==
    LET manager == clear_local_storage(navigate_to(storage_manager, path))
    IN /\ storage_manager' = manager
       /\ ClientSend(step, Load(path, get_all_storage(manager)), ok, next_pc)

\* a connect() that returns the error of the first failed TCP connect
TcpConnectFailed_GivesUp ==
    /\ UNCHANGED <<server_vars, reader_vars, router_vars>>
    /\ cl_received' = NoFrame
    /\ cl_pc = "connect"
    /\ cl_pc' = "ended_err"
    /\ Did("TcpConnectFailed", <<>>, <<>>)
    /\ UNCHANGED <<storage_vars, current_path, commands, handles_alive, subscribers>>

\* connect(): TcpStream::connect fails, then sleep 1 s
TcpConnectFailed ==
    /\ UNCHANGED <<server_vars, reader_vars, router_vars>>
    /\ cl_received' = NoFrame
    /\ cl_pc = "connect"
    /\ cl_pc' = "sleep"
    /\ Did("TcpConnectFailed", <<>>, <<>>)
    /\ UNCHANGED <<storage_vars, current_path, commands, handles_alive, subscribers>>

\* connect(): the sleep is over, the loop tries again
SleepElapsed ==
    /\ UNCHANGED <<server_vars, reader_vars, router_vars>>
    /\ cl_received' = NoFrame
    /\ cl_pc = "sleep"
    /\ cl_pc' = "connect"
    /\ Did("SleepElapsed", <<>>, <<>>)
    /\ UNCHANGED <<storage_vars, current_path, commands, handles_alive, subscribers>>

\* connect(): TcpStream::connect succeeds
TcpConnected ==
    /\ UNCHANGED <<server_vars, reader_vars, router_vars>>
    /\ cl_received' = NoFrame
    /\ cl_pc = "connect"
    /\ cl_pc' = "tls"
    /\ Did("TcpConnected", <<>>, <<>>)
    /\ UNCHANGED <<storage_vars, current_path, commands, handles_alive, subscribers>>

\* connect(): the TLS handshake fails, `?` returns TlsHandshakeFailed
TlsHandshakeFailed ==
    /\ UNCHANGED <<server_vars, reader_vars, router_vars>>
    /\ cl_received' = NoFrame
    /\ cl_pc = "tls"
    /\ cl_pc' = "ended_err"
    /\ Did("TlsHandshakeFailed", <<>>, <<>>)
    /\ UNCHANGED <<storage_vars, current_path, commands, handles_alive, subscribers>>

\* connect() returns the stream of a new connection
TlsConnected ==
    /\ UNCHANGED <<server_vars, reader_vars, router_vars>>
    /\ cl_received' = NoFrame
    /\ cl_pc = "tls"
    /\ cl_pc' = "hello"
    /\ cl_step' = "TlsConnected"
    /\ cl_sent' = <<>>
    /\ events' = <<>>
    /\ cl_first_frame' = NoFrame
    /\ server_hello_seen' = FALSE
    /\ UNCHANGED call_failed
    /\ UNCHANGED <<storage_vars, current_path, commands, handles_alive, subscribers>>

\* a session task that reloads the current path before it says hello
SendClientHello_AfterReload(ok) ==
    /\ UNCHANGED <<server_vars, reader_vars, router_vars>>
    /\ cl_received' = NoFrame
    /\ cl_pc = "hello"
    /\ IF current_path # None /\ ok
       THEN /\ storage_manager' = clear_local_storage(navigate_to(storage_manager, current_path[1]))
            /\ Did("SendClientHello",
                   <<Load(current_path[1], get_all_storage(storage_manager')),
                     ClientHello(supported_capabilities)>>, <<>>)
            /\ cl_pc' = "select"
       ELSE /\ ClientSend("SendClientHello", ClientHello(supported_capabilities), ok, "reload")
            /\ UNCHANGED storage_manager
    /\ UNCHANGED <<disk, sm_op, current_path, commands, handles_alive, subscribers>>

\* session_loop: send ClientHello on the new stream
SendClientHello(ok) ==
    /\ UNCHANGED <<server_vars, reader_vars, router_vars>>
    /\ cl_received' = NoFrame
    /\ cl_pc = "hello"
    /\ ClientSend("SendClientHello", ClientHello(supported_capabilities), ok, "reload")
    /\ UNCHANGED <<storage_vars, current_path, commands, handles_alive, subscribers>>

\* a session task that does not reload the current path on a new connection
ReloadCurrentPath_Skip(ok) ==
    /\ UNCHANGED <<server_vars, reader_vars, router_vars>>
    /\ cl_received' = NoFrame
    /\ cl_pc = "reload"
    /\ ok
    /\ cl_pc' = "select"
    /\ Did("ReloadCurrentPath", <<>>, <<>>)
    /\ UNCHANGED <<storage_vars, current_path, commands, handles_alive, subscribers>>

\* session_loop: "If we have a current path, reload it after connection"
ReloadCurrentPath(ok) ==
    /\ UNCHANGED <<server_vars, reader_vars, router_vars>>
    /\ cl_received' = NoFrame
    /\ cl_pc = "reload"
    /\ IF current_path # None
       THEN SendLoad("ReloadCurrentPath", current_path[1], ok, "select")
       ELSE /\ ok
            /\ cl_pc' = "select"
            /\ Did("ReloadCurrentPath", <<>>, <<>>)
            /\ UNCHANGED storage_manager
    /\ UNCHANGED <<disk, sm_op, current_path, commands, handles_alive, subscribers>>

\* an Action arm that fires an action without a path at the root path
RecvCommandAction_AtRoot(ok) ==
    /\ UNCHANGED <<server_vars, reader_vars, router_vars>>
    /\ cl_received' = NoFrame
    /\ cl_pc = "select"
    /\ commands # <<>>
    /\ Head(commands).type = "Action"
    /\ commands' = Tail(commands)
    /\ ClientSend("RecvCommandAction",
                  Action(IF current_path # None THEN current_path[1] ELSE <<"", "">>,
                         Head(commands).action, Head(commands).storage),
                  ok, "select")
    /\ UNCHANGED <<storage_vars, current_path, handles_alive, subscribers>>

\* a session task that merges the manager's storage into every Action
RecvCommandAction_Merged(ok) ==
    /\ UNCHANGED <<server_vars, reader_vars, router_vars>>
    /\ cl_received' = NoFrame
    /\ cl_pc = "select"
    /\ commands # <<>>
    /\ Head(commands).type = "Action"
    /\ commands' = Tail(commands)
    /\ IF current_path # None
       THEN ClientSend("RecvCommandAction",
                       Action(current_path[1], Head(commands).action,
                              get_all_storage(storage_manager)),
                       ok, "select")
       ELSE /\ ok
            /\ Did("RecvCommandAction", <<>>, <<>>)
            /\ UNCHANGED cl_pc
    /\ UNCHANGED <<storage_vars, current_path, handles_alive, subscribers>>

\* select!: NetworkSessionCommand::Action
RecvCommandAction(ok) ==
    /\ UNCHANGED <<server_vars, reader_vars, router_vars>>
    /\ cl_received' = NoFrame
    /\ cl_pc = "select"
    /\ commands # <<>>
    /\ Head(commands).type = "Action"
    /\ commands' = Tail(commands)
    /\ IF current_path # None
       THEN ClientSend("RecvCommandAction",
                       Action(current_path[1], Head(commands).action, Head(commands).storage),
                       ok, "select")
       ELSE /\ ok
            /\ Did("RecvCommandAction", <<>>, <<>>)
            /\ UNCHANGED cl_pc
    /\ UNCHANGED <<storage_vars, current_path, handles_alive, subscribers>>

\* a Load arm that sends the Load without telling the StorageManager
RecvCommandLoad_NoNavigate(ok) ==
    /\ UNCHANGED <<server_vars, reader_vars, router_vars>>
    /\ cl_received' = NoFrame
    /\ cl_pc = "select"
    /\ commands # <<>>
    /\ Head(commands).type = "Load"
    /\ commands' = Tail(commands)
    /\ current_path' = Some(Head(commands).path)
    /\ storage_manager' = clear_local_storage(storage_manager)
    /\ ClientSend("RecvCommandLoad",
                  Load(Head(commands).path, get_all_storage(clear_local_storage(storage_manager))),
                  ok, "select")
    /\ UNCHANGED <<disk, sm_op, handles_alive, subscribers>>

\* select!: NetworkSessionCommand::Load
RecvCommandLoad(ok) ==
    /\ UNCHANGED <<server_vars, reader_vars, router_vars>>
    /\ cl_received' = NoFrame
    /\ cl_pc = "select"
    /\ commands # <<>>
    /\ Head(commands).type = "Load"
    /\ commands' = Tail(commands)
    /\ current_path' = Some(Head(commands).path)
    /\ SendLoad("RecvCommandLoad", Head(commands).path, ok, "select")
    /\ UNCHANGED <<disk, sm_op, handles_alive, subscribers>>

\* select!: command_receiver.recv() returns None, break 'main
ChannelClosed ==
    /\ UNCHANGED <<server_vars, reader_vars, router_vars>>
    /\ cl_received' = NoFrame
    /\ cl_pc = "select"
    /\ commands = <<>>
    /\ ~handles_alive
    /\ cl_pc' = "ended_ok"
    /\ Did("ChannelClosed", <<>>, <<>>)
    /\ UNCHANGED <<storage_vars, current_path, commands, handles_alive, subscribers>>

\* a session task that takes a failed broadcast for a lost connection
Broadcast_ReconnectsWithoutReceiver(step, event) ==
    IF subscribers
    THEN /\ Did(step, <<>>, <<event>>)
         /\ UNCHANGED cl_pc
    ELSE /\ Did(step, <<>>, <<>>)
         /\ cl_pc' = "connect"

\* a broadcast that succeeds without any receiver
Broadcast_NoReceiverNeeded(step, event) ==
    /\ Did(step, <<>>, <<event>>)
    /\ UNCHANGED cl_pc

\* event_sender.send: Err when the channel has no receiver, then break 'main
Broadcast(step, event) ==
    IF subscribers
    THEN /\ Did(step, <<>>, <<event>>)
         /\ UNCHANGED cl_pc
    ELSE /\ Did(step, <<>>, <<>>)
         /\ cl_pc' = "ended_ok"

\* a session task that holds the reload back until the ServerHello arrives
RecvServerHello_ThenReload(frame) ==
    /\ UNCHANGED <<server_vars, reader_vars, router_vars>>
    /\ cl_received' = frame
    /\ cl_pc = "select"
    /\ IF current_path # None /\ ~server_hello_seen
       THEN SendLoad("RecvServerHello", current_path[1], TRUE, "select")
       ELSE /\ Did("RecvServerHello", <<>>, <<>>)
            /\ UNCHANGED <<storage_manager, cl_pc>>
    /\ UNCHANGED <<disk, sm_op, current_path, commands, handles_alive, subscribers>>

\* ServerToClientMessage::ServerHello
RecvServerHello(frame) ==
    /\ UNCHANGED <<server_vars, reader_vars, router_vars>>
    /\ cl_received' = frame
    /\ cl_pc = "select"
    /\ Did("RecvServerHello", <<>>, <<>>)
    /\ UNCHANGED <<storage_vars, cl_pc, current_path, commands, handles_alive, subscribers>>

\* ServerToClientMessage::Render
RecvRender(frame) ==
    /\ UNCHANGED <<server_vars, reader_vars, router_vars>>
    /\ cl_received' = frame
    /\ cl_pc = "select"
    /\ Broadcast("RecvRender", DocumentUpdated(frame.document))
    /\ UNCHANGED <<storage_vars, current_path, commands, handles_alive, subscribers>>

\* a session task that follows a redirect without making it the current path
RecvRedirectTo_KeepPath(frame, ok) ==
    /\ UNCHANGED <<server_vars, reader_vars, router_vars>>
    /\ cl_received' = frame
    /\ cl_pc = "select"
    /\ SendLoad("RecvRedirectTo", frame.path, ok, "select")
    /\ UNCHANGED <<disk, sm_op, current_path, commands, handles_alive, subscribers>>

\* ServerToClientMessage::RedirectTo
RecvRedirectTo(frame, ok) ==
    /\ UNCHANGED <<server_vars, reader_vars, router_vars>>
    /\ cl_received' = frame
    /\ cl_pc = "select"
    /\ current_path' = Some(frame.path)
    /\ SendLoad("RecvRedirectTo", frame.path, ok, "select")
    /\ UNCHANGED <<disk, sm_op, commands, handles_alive, subscribers>>

\* ServerToClientMessage::Store: a failed store is logged and nothing else
RecvStore(frame, outcome) ==
    /\ UNCHANGED <<server_vars, reader_vars, router_vars>>
    /\ cl_received' = frame
    /\ cl_pc = "select"
    /\ frame.scope # "Persistent" => outcome = "ok"
    /\ LET r == store(storage_manager, disk, frame.scope, frame.key, frame.value, outcome)
       IN /\ storage_manager' = r.self
          /\ disk' = r.files
    /\ Did("RecvStore", <<>>, <<>>)
    /\ UNCHANGED <<sm_op, cl_pc, current_path, commands, handles_alive, subscribers>>

\* a session task that treats UpgradeRequired like every other error
RecvError_NeverFatal(frame) ==
    /\ UNCHANGED <<server_vars, reader_vars, router_vars>>
    /\ cl_received' = frame
    /\ cl_pc = "select"
    /\ Broadcast("RecvError", ServerError(as_u16(frame.code), frame.message))
    /\ UNCHANGED <<storage_vars, current_path, commands, handles_alive, subscribers>>

\* ServerToClientMessage::Error
RecvError(frame) ==
    /\ UNCHANGED <<server_vars, reader_vars, router_vars>>
    /\ cl_received' = frame
    /\ cl_pc = "select"
    /\ IF frame.code = "UpgradeRequired"
       THEN /\ cl_pc' = "ended_err"
            /\ Did("RecvError", <<>>, <<>>)
       ELSE Broadcast("RecvError", ServerError(as_u16(frame.code), frame.message))
    /\ UNCHANGED <<storage_vars, current_path, commands, handles_alive, subscribers>>

\* a session task that starts every connection with an empty command queue
RecvEof_DropsQueue ==
    /\ UNCHANGED <<server_vars, reader_vars, router_vars>>
    /\ cl_received' = NoFrame
    /\ cl_pc = "select"
    /\ storage_manager' = clear_session_storage(storage_manager)
    /\ cl_pc' = "connect"
    /\ commands' = <<>>
    /\ Did("RecvEof", <<>>, <<>>)
    /\ UNCHANGED <<disk, sm_op, current_path, handles_alive, subscribers>>

\* a session task that returns when the server closes the stream
RecvEof_Ends ==
    /\ UNCHANGED <<server_vars, reader_vars, router_vars>>
    /\ cl_received' = NoFrame
    /\ cl_pc = "select"
    /\ storage_manager' = clear_session_storage(storage_manager)
    /\ cl_pc' = "ended_ok"
    /\ Did("RecvEof", <<>>, <<>>)
    /\ UNCHANGED <<disk, sm_op, current_path, commands, handles_alive, subscribers>>

\* a session task that reconnects with its session storage intact
RecvEof_KeepSession ==
    /\ UNCHANGED <<server_vars, reader_vars, router_vars>>
    /\ cl_received' = NoFrame
    /\ cl_pc = "select"
    /\ cl_pc' = "connect"
    /\ Did("RecvEof", <<>>, <<>>)
    /\ UNCHANGED <<storage_vars, current_path, commands, handles_alive, subscribers>>

\* receive_server_message returns Ok(None): break 'connection, then
\* clear_session_storage and back to connect()
RecvEof ==
    /\ UNCHANGED <<server_vars, reader_vars, router_vars>>
    /\ cl_received' = NoFrame
    /\ cl_pc = "select"
    /\ storage_manager' = clear_session_storage(storage_manager)
    /\ cl_pc' = "connect"
    /\ Did("RecvEof", <<>>, <<>>)
    /\ UNCHANGED <<disk, sm_op, current_path, commands, handles_alive, subscribers>>

\* receive_server_message returns Err: `message?` returns it from session_loop
RecvFailed ==
    /\ UNCHANGED <<server_vars, reader_vars, router_vars>>
    /\ cl_received' = NoFrame
    /\ cl_pc = "select"
    /\ cl_pc' = "ended_err"
    /\ Did("RecvFailed", <<>>, <<>>)
    /\ UNCHANGED <<storage_vars, current_path, commands, handles_alive, subscribers>>

\* NetworkSession::load and NetworkSession::action: the command is queued
\* while the session task holds the receiver; once the task has returned the
\* receiver is gone, send fails and the call returns Err
UiCommand(command) ==
    /\ UNCHANGED <<server_vars, reader_vars, router_vars>>
    /\ handles_alive
    /\ IF ClientEnded
       THEN /\ call_failed' = TRUE
            /\ UNCHANGED commands
       ELSE /\ Len(commands) < MaxQueued
            /\ commands' = Append(commands, command)
            /\ call_failed' = FALSE
    /\ UNCHANGED <<storage_vars, cl_pc, current_path, handles_alive, subscribers,
                   cl_step, cl_sent, events, cl_first_frame, server_hello_seen,
                   cl_received>>

\* the last NetworkSession handle is dropped
DropHandles ==
    /\ UNCHANGED <<server_vars, reader_vars, router_vars>>
    /\ handles_alive
    /\ handles_alive' = FALSE
    /\ UNCHANGED <<storage_vars, cl_pc, current_path, commands, subscribers,
                   cl_step, cl_sent, events, cl_first_frame, server_hello_seen,
                   cl_received, call_failed>>

\* NetworkSession::event_receiver
Subscribe ==
    /\ UNCHANGED <<server_vars, reader_vars, router_vars>>
    /\ handles_alive
    /\ ~subscribers
    /\ subscribers' = TRUE
    /\ UNCHANGED <<storage_vars, cl_pc, current_path, commands, handles_alive,
                   cl_step, cl_sent, events, cl_first_frame, server_hello_seen,
                   cl_received, call_failed>>

\* the last event receiver is dropped
Unsubscribe ==
    /\ UNCHANGED <<server_vars, reader_vars, router_vars>>
    /\ subscribers
    /\ subscribers' = FALSE
    /\ UNCHANGED <<storage_vars, cl_pc, current_path, commands, handles_alive,
                   cl_step, cl_sent, events, cl_first_frame, server_hello_seen,
                   cl_received, call_failed>>

ClientNext ==
    \/ TcpConnectFailed
    \/ SleepElapsed
    \/ TcpConnected
    \/ TlsHandshakeFailed
    \/ TlsConnected
    \/ \E ok \in BOOLEAN : SendClientHello(ok)
    \/ \E ok \in BOOLEAN : ReloadCurrentPath(ok)
    \/ \E ok \in BOOLEAN : RecvCommandAction(ok)
    \/ \E ok \in BOOLEAN : RecvCommandLoad(ok)
    \/ ChannelClosed
    \/ \E caps \in {{}, {CORE_V1}} : RecvServerHello(ServerHello(caps))
    \/ \E frame \in InboundRenders : RecvRender(frame)
    \/ \E frame \in InboundRedirects, ok \in BOOLEAN : RecvRedirectTo(frame, ok)
    \/ \E frame \in InboundStores, outcome \in SaveOutcomes : RecvStore(frame, outcome)
    \/ \E frame \in InboundErrors : RecvError(frame)
    \/ RecvEof
    \/ RecvFailed
    \/ \E command \in UiCommands : UiCommand(command)
    \/ DropHandles
    \/ Subscribe
    \/ Unsubscribe

ServerInit ==
    ServerInitFor({1}, MaxRequests) /\ StorageIdle /\ ClientIdle /\ ReaderIdle /\ RouterIdle

\* receive_client_message and the match of handle_connection on one stream
SpecReaderInit == ReaderInit /\ ServerIdle /\ StorageIdle /\ ClientIdle /\ RouterIdle

SpecReader == SpecReaderInit /\ [][ReaderNext]_vars

\* RoutePattern::new and RoutePattern::matches on one pattern and one path
SpecRouterInit == RouterInit /\ ServerIdle /\ StorageIdle /\ ClientIdle /\ ReaderIdle

SpecRouter == SpecRouterInit /\ [][RouterNext]_vars

SpecServer == ServerInit /\ [][ServerNext]_vars

\* accept_loop has spawned connection_loop twice: two tasks, any interleaving
ServerPairInit ==
    ServerInitFor({1, 2}, MaxPairRequests) /\ StorageIdle /\ ClientIdle /\ ReaderIdle /\ RouterIdle

\* two connections of one server, each in its own task
SpecServerPair == ServerPairInit /\ [][ServerPairNext]_vars

\* the StorageManager alone, called in any order
SpecStorage == StorageInit /\ [][StorageNext]_vars

\* the client session task against any server and any application
SpecClient == ClientInit /\ [][ClientNext]_vars

\* the session task is scheduled: a sleep ends, a handshake finishes one way
\* or the other, a write returns; and the server, tried again and again, in
\* the end accepts the TCP connection
ClientFairness ==
    /\ SF_vars(TcpConnected)
    /\ WF_vars(SleepElapsed)
    /\ WF_vars(TlsConnected \/ TlsHandshakeFailed)
    /\ WF_vars(\E ok \in BOOLEAN : SendClientHello(ok))

SpecClientLive == ClientInit /\ [][ClientNext]_vars /\ ClientFairness

\* the session task is scheduled and select! polls both of its branches, but
\* nothing is assumed of the server: every connect attempt returns one way or
\* the other, a sleep ends, a handshake finishes, a write returns, and a
\* command or a closed command channel that stays ready is taken in the end
ClientScheduling ==
    /\ WF_vars(TcpConnectFailed \/ TcpConnected)
    /\ WF_vars(SleepElapsed)
    /\ WF_vars(TlsConnected \/ TlsHandshakeFailed)
    /\ WF_vars(\E ok \in BOOLEAN : SendClientHello(ok))
    /\ WF_vars(\E ok \in BOOLEAN : ReloadCurrentPath(ok))
    /\ SF_vars(\E ok \in BOOLEAN : RecvCommandAction(ok) \/ RecvCommandLoad(ok))
    /\ SF_vars(ChannelClosed)

SpecClientScheduled == ClientInit /\ [][ClientNext]_vars /\ ClientScheduling


\* ================================================================ claims
\* The frames handle_request puts on a healthy stream for one request, stated
\* from the request alone.
RECURSIVE ScriptFrames(_, _)
ScriptFrames(steps, caps) ==
    IF steps = <<>> THEN <<>>
    ELSE LET op == Head(steps)
         IN CASE op.op = "store" ->
                   <<Store(op.scope, op.key, op.value)>> \o ScriptFrames(Tail(steps), caps)
              [] op.op = "redirect" ->
                   <<RedirectTo(op.path)>> \o ScriptFrames(Tail(steps), caps)
              [] op.op = "assert_capability" ->
                   IF op.capability \in caps
                   THEN ScriptFrames(Tail(steps), caps)
                   ELSE <<Error("UpgradeRequired",
                                <<"Missing required capability: ", op.capability>>),
                          Error("InternalServerError",
                                <<"Missing required capability: ", op.capability>>)>>
              [] op.op = "fail" -> <<Error("InternalServerError", op.error)>>

NotFoundFrame(path) == Error("NotFound", <<"Route not found: ">> \o path)

ReplyOf(req, caps) ==
    CASE req.type = "ClientHello" ->
            <<ServerHello(supported_capabilities \cap req.capabilities)>>
      [] req.type = "Load" ->
            IF route(req.path).found
            THEN LET rendered == RenderOf(route(req.path).route, route(req.path).params,
                                          req.storage)
                 IN IF rendered.kind = "Document"
                    THEN <<Render(rendered.document)>>
                    ELSE <<RedirectTo(rendered.path)>>
            ELSE <<NotFoundFrame(req.path)>>
      [] req.type = "Action" ->
            IF route(req.path).found
            THEN ScriptFrames(HandlerScript(route(req.path).route, req.action, req.storage),
                              caps)
            ELSE <<NotFoundFrame(req.path)>>
      [] OTHER -> <<>>

Routed(req) == req.type \in {"Load", "Action"} /\ route(req.path).found
Unrouted(req) == req.type \in {"Load", "Action"} /\ ~route(req.path).found
IsError(frame, code) == frame.type = "Error" /\ frame.code = code
Last(seq) == seq[Len(seq)]

\* C2 (as stated): on every connection the first frame the server writes is
\* ServerHello, and a Load or Action that arrives before any ClientHello gets
\* no frame in reply.
C2_FirstFrameIsServerHello ==
    \A c \in ConnIds :
        /\ first_frame[c] # NoFrame => first_frame[c].type = "ServerHello"
        /\ ~hello_seen[c] => sent[c] = <<>>

\* C2 (amended): when the first request of a connection is ClientHello the
\* first frame the server writes is ServerHello, and ServerHello is written
\* only for a ClientHello; ClientHello is not required first: until one
\* arrives the capability set is empty and a Load or Action is dispatched
\* against it and answered like any other request.
C2_HelloNotRequired ==
    \A c \in ConnIds :
        /\ (hello_first[c] /\ first_frame[c] # NoFrame) => first_frame[c].type = "ServerHello"
        /\ \A i \in 1..Len(sent[c]) :
              sent[c][i].type = "ServerHello" => request[c].type = "ClientHello"
        /\ ~hello_seen[c] => (capabilities[c] = {} /\ context[c].capabilities = {})
        /\ (~hello_seen[c] /\ request[c].type \in {"Load", "Action"} /\ srv_pc[c] = "receive")
              => sent[c] = ReplyOf(request[c], {})

C2_Witness ==
    \E c \in ConnIds :
        /\ ~hello_seen[c]
        /\ request[c] = Load(HelloPath, EmptyMap)
        /\ sent[c] = <<Render(<<"Hello from real server!">>)>>
        /\ first_frame[c].type = "Render"

\* C3: the ServerHello sent for a ClientHello carries exactly
\* server_supported \cap client_offered, a subset of both, and that set
\* becomes the connection's capability set.
C3_NegotiatedIsIntersection ==
    \A c \in ConnIds :
        request[c].type = "ClientHello" =>
            /\ srv_pc[c] = "receive" => sent[c] # <<>>
            /\ sent[c] # <<>> =>
                 /\ Len(sent[c]) = 1
                 /\ sent[c][1].type = "ServerHello"
                 /\ sent[c][1].capabilities = supported_capabilities \cap request[c].capabilities
                 /\ sent[c][1].capabilities \subseteq supported_capabilities
                 /\ sent[c][1].capabilities \subseteq request[c].capabilities
                 /\ capabilities[c] = sent[c][1].capabilities

C3_Witness ==
    \E c \in ConnIds :
        /\ request[c] = ClientHello({CORE_V1, PSEUDO_CLASSES})
        /\ sent[c] = <<ServerHello({CORE_V1})>>
        /\ capabilities[c] = {CORE_V1}

\* C4: for a Load whose path matches a route the server writes exactly one
\* frame, Render for a Document and RedirectTo for a redirect, and no other
\* frame (nothing is written only while the request is still being handled
\* or when the peer has reset the stream).
C4_LoadOneTerminalFrame ==
    \A c \in ConnIds :
        (request[c].type = "Load" /\ route(request[c].path).found) =>
            LET rendered == RenderOf(route(request[c].path).route,
                                     route(request[c].path).params, request[c].storage)
                expected == IF rendered.kind = "Document"
                            THEN Render(rendered.document)
                            ELSE RedirectTo(rendered.path)
            IN /\ sent[c] \in {<<>>, <<expected>>}
               /\ sent[c] = <<>> => (srv_pc[c] = "handle_request" \/ stream_broken[c])

C4_Witness ==
    \E c \in ConnIds :
        /\ request[c] = Load(RedirectPath, EmptyMap)
        /\ sent[c] = <<RedirectTo(HelloPath)>>
        /\ srv_pc[c] = "receive"

\* C5: requests of one connection are processed strictly serially: at the
\* step that reads the next request every frame of the request before it is
\* already on the wire and its handler has finished.
C5_StrictlySerial ==
    [][\A c \in ConnIds :
          message_count'[c] # message_count[c] =>
              /\ script[c] = <<>>
              /\ srv_pc[c] \notin {"handle_request", "handler", "error_reply"}
              /\ sent[c] = ReplyOf(request[c], context[c].capabilities)
              /\ prev'[c] = [request |-> request[c], sent |-> sent[c]]
              /\ sent'[c] = <<>>]_vars

C5_Witness ==
    \E c \in ConnIds :
        /\ message_count[c] >= 2
        /\ Len(prev[c].sent) = 3
        /\ Len(sent[c]) >= 1

\* C6: a Load or Action whose path matches no route gets exactly one frame,
\* Error{NotFound, "Route not found: <path>"}, no handler runs, and the
\* connection stays open: the server returns to reading and the request after
\* it is answered as usual.
C6_State ==
    \A c \in ConnIds :
        /\ Unrouted(request[c]) =>
              /\ srv_pc[c] # "handler"
              /\ script[c] = <<>>
              /\ sent[c] \in {<<>>, <<Error("NotFound",
                                             <<"Route not found: ">> \o request[c].path)>>}
              /\ sent[c] = <<>> => (srv_pc[c] = "handle_request" \/ stream_broken[c])
        /\ (Unrouted(prev[c].request) /\ srv_pc[c] = "receive")
              => sent[c] = ReplyOf(request[c], context[c].capabilities)

C6_Step ==
    \A c \in ConnIds :
        (Unrouted(request[c]) /\ srv_pc[c] = "handle_request" /\ ~stream_broken[c])
            => srv_pc'[c] \in {"handle_request", "receive"}

C6_NotFoundKeepsConnection == []C6_State /\ [][C6_Step]_vars

C6_Witness ==
    \E c \in ConnIds :
        /\ prev[c].request = Action(MissingPath, "click", EmptyMap)
        /\ prev[c].sent = <<Error("NotFound", <<"Route not found: ", "", "nonexistent">>)>>
        /\ request[c] = Load(HelloPath, EmptyMap)
        /\ sent[c] = <<Render(<<"Hello from real server!">>)>>

\* C7: when an action handler returns Err the server sends
\* Error{InternalServerError, <error text>} after the frames the handler
\* already sent, goes back to reading, and handles the next request normally.
C7_State ==
    \A c \in ConnIds :
        /\ (Routed(request[c]) /\ request[c].type = "Action" /\ ~result[c].ok) =>
              /\ srv_pc[c] = "error_reply" =>
                    \A i \in 1..Len(sent[c]) : ~IsError(sent[c][i], "InternalServerError")
              /\ srv_pc[c] = "receive" =>
                    /\ sent[c] # <<>>
                    /\ Last(sent[c]) = Error("InternalServerError", result[c].error)
                    /\ sent[c] = ReplyOf(request[c], context[c].capabilities)
        /\ (prev[c].sent # <<>> /\ IsError(Last(prev[c].sent), "InternalServerError")
            /\ srv_pc[c] = "receive")
              => sent[c] = ReplyOf(request[c], context[c].capabilities)

C7_Step ==
    \A c \in ConnIds :
        (srv_pc[c] = "error_reply" /\ ~stream_broken[c] /\ srv_pc'[c] # "error_reply") =>
            /\ srv_pc'[c] = "receive"
            /\ sent'[c] = Append(sent[c], Error("InternalServerError", result[c].error))

C8_AssertFailureTerminates ==
    \A c \in ConnIds :
        /\ \A i \in 1..Len(sent[c]) :
              IsError(sent[c][i], "UpgradeRequired") =>
                  /\ i = Len(sent[c])
                  /\ \E cap \in {CORE_V1, STORAGE_ARRAYS} :
                        /\ cap \notin context[c].capabilities
                        /\ sent[c][i].message = <<"Missing required capability: ", cap>>
        /\ \A i \in 1..Len(prev[c].sent) : ~IsError(prev[c].sent[i], "UpgradeRequired")

\* ------------------------------------------------------------ client claims
\* the merge as the scopes' precedence states it: local, else session, else
\* persistent, else absent
Precedence(p, s, l) ==
    [k \in (DOMAIN p) \cup (DOMAIN s) \cup (DOMAIN l) |->
        IF k \in DOMAIN l THEN l[k]
        ELSE IF k \in DOMAIN s THEN s[k]
        ELSE p[k]]

MergedStorage(manager) ==
    Precedence(manager.persistent_storage, manager.session_storage, manager.local_storage)

\* C1: on every connection the client establishes, the first frame it writes
\* is ClientHello with the client's supported capabilities: nothing is
\* written before session_loop reaches the hello, no Load or Action is
\* written by the step that writes the hello, and every Load or Action is
\* written on a connection whose first frame was the ClientHello.
C1_ClientHelloFirst ==
    /\ cl_first_frame # NoFrame => cl_first_frame = ClientHello(supported_capabilities)
    /\ cl_pc \in {"connect", "sleep", "tls", "hello"} => cl_sent = <<>>
    /\ cl_pc = "hello" => cl_first_frame = NoFrame
    /\ \A i \in 1..Len(cl_sent) :
          cl_sent[i].type \in {"Load", "Action"} =>
              /\ cl_first_frame = ClientHello(supported_capabilities)
              /\ cl_step # "SendClientHello"

\* a reconnect: the session had a current path when the connection was made,
\* and the hello went out before the reload of that path
C1_Witness ==
    /\ cl_step = "ReloadCurrentPath"
    /\ cl_first_frame = ClientHello({CORE_V1})
    /\ current_path = Some(CounterPath)
    /\ cl_sent = <<Load(CounterPath, "k1" :> SBoolean("true"))>>

\* C9: get_all_storage returns, for every key, the local value if there is
\* one, else the session value, else the persistent value, and has no other
\* key; the call changes none of the three maps.
C9_State ==
    sm_op.name = "get_all_storage" => sm_op.ret = MergedStorage(storage_manager)

C9_Step ==
    sm_op'.name = "get_all_storage" => storage_manager' = storage_manager

C9_MergePrecedence == []C9_State /\ [][C9_Step]_vars

\* the three scopes hold three different values for the key
C9_Witness ==
    /\ sm_op.name = "get_all_storage"
    /\ storage_manager.persistent_storage = ("k1" :> SString("a"))
    /\ storage_manager.session_storage = ("k1" :> SBoolean("true"))
    /\ storage_manager.local_storage = ("k1" :> SEmpty)
    /\ sm_op.ret = ("k1" :> SEmpty)

\* C10 as stated: every Load and every Action frame the session task writes
\* carries the merged storage of the StorageManager at the time of sending.
C10_EveryRequestCarriesMergedStorage ==
    \A i \in 1..Len(cl_sent) :
        cl_sent[i].type \in {"Load", "Action"} =>
            cl_sent[i].storage = MergedStorage(storage_manager)

C10_LoadState ==
    \A i \in 1..Len(cl_sent) :
        cl_sent[i].type = "Load" => cl_sent[i].storage = MergedStorage(storage_manager)

C10_ActionStep ==
    \A i \in 1..Len(cl_sent') :
        (cl_step' = "RecvCommandAction" /\ commands # <<>> /\ commands' = Tail(commands)
            /\ cl_sent'[i].type = "Action") =>
                cl_sent'[i].storage = Head(commands).storage

C10_ActionState ==
    \A i \in 1..Len(cl_sent) :
        cl_sent[i].type = "Action" => cl_step = "RecvCommandAction"

\* C10: every Load frame the session task writes carries the merged storage
\* of the StorageManager at the time of sending (local over session over
\* persistent); every Action frame carries the storage map the caller passed
\* to NetworkSession::action with that command, whatever the StorageManager
\* holds.
C10_LoadMergedActionAsGiven ==
    /\ []C10_LoadState
    /\ []C10_ActionState
    /\ [][C10_ActionStep]_vars

\* an Action goes out with the caller's map while the manager holds other values
C10_Witness ==
    /\ cl_step = "RecvCommandAction"
    /\ cl_sent = <<Action(CounterPath, "submit", FormState)>>
    /\ storage_manager.persistent_storage = ("k1" :> SBoolean("true"))
    /\ storage_manager.session_storage = ("k1" :> SString("a"))
    /\ MergedStorage(storage_manager) = ("k1" :> SString("a"))

\* C11: session storage is cleared exactly when the connection is lost.
\* Between the end of a connection and the first frame of the next one the
\* session map is empty; every step other than the loss of the connection
\* keeps every session key, and changes a session value only by applying a
\* Store; the loss of the connection leaves the persistent map as it was.
C11_State ==
    cl_pc \in {"connect", "sleep", "tls", "hello"} =>
        storage_manager.session_storage = EmptyMap

C11_Step ==
    /\ cl_step' # "RecvEof" =>
          \A k \in DOMAIN storage_manager.session_storage :
              /\ k \in DOMAIN storage_manager'.session_storage
              /\ storage_manager'.session_storage[k] # storage_manager.session_storage[k]
                    => cl_step' = "RecvStore"
    /\ (cl_pc = "select" /\ cl_pc' = "connect") =>
          /\ storage_manager'.session_storage = EmptyMap
          /\ storage_manager'.persistent_storage = storage_manager.persistent_storage

C11_SessionClearedOnConnectionLoss == []C11_State /\ [][C11_Step]_vars

\* the connection was lost while the manager held a persistent entry and a
\* current route: the session map is empty, the persistent entry is kept
C11_Witness ==
    /\ cl_step = "RecvEof"
    /\ cl_pc = "connect"
    /\ storage_manager.session_storage = EmptyMap
    /\ storage_manager.persistent_storage = ("k1" :> SBoolean("true"))
    /\ storage_manager.local_storage = ("k1" :> SEmpty)
    /\ current_path = Some(HelloPath)

\* C12: navigate_to(x) with x different from current_route leaves local
\* storage empty and current_route = x, and leaves the persistent and the
\* session map as they were; navigate_to(x) with x equal to current_route
\* changes none of local, session, persistent and current_route.
C12_Step ==
    sm_op'.name = "navigate_to" =>
        LET x == sm_op'.args.route[1]
        IN IF storage_manager.current_route # Some(x)
           THEN /\ storage_manager'.local_storage = EmptyMap
                /\ storage_manager'.current_route = Some(x)
                /\ storage_manager'.persistent_storage = storage_manager.persistent_storage
                /\ storage_manager'.session_storage = storage_manager.session_storage
           ELSE storage_manager' = storage_manager

C12_NavigateTo == [][C12_Step]_vars

\* a navigation to the current route: the local entry is still there
C12_Witness ==
    /\ sm_op.name = "navigate_to"
    /\ sm_op.args.route = Some(CounterPath)
    /\ storage_manager.current_route = Some(CounterPath)
    /\ storage_manager.local_storage = ("k1" :> SString("a"))
    /\ storage_manager.session_storage = ("k1" :> SBoolean("true"))
    /\ storage_manager.persistent_storage = ("k1" :> SEmpty)

\* C13: on every new connection, once the hello is written, the client with
\* current_path = Some(p) writes exactly one automatic Load{p, storage} whose
\* storage is the merge of the manager as it is after the session map was
\* cleared (so it holds no session entry), before it takes any command from
\* the channel; with current_path = None it writes no automatic Load.
C13_State ==
    /\ cl_pc = "reload" => /\ cl_sent = <<ClientHello(supported_capabilities)>>
                           /\ storage_manager.session_storage = EmptyMap
    /\ cl_step = "ReloadCurrentPath" =>
          \/ cl_sent = <<>>
          \/ /\ current_path # None
             /\ cl_sent = <<Load(current_path[1], MergedStorage(storage_manager))>>
             /\ storage_manager.session_storage = EmptyMap
             /\ storage_manager.local_storage = EmptyMap

C13_Step ==
    /\ cl_pc' = "reload" => cl_pc \in {"hello", "reload"}
    /\ cl_step' = "ReloadCurrentPath" => (cl_pc = "reload" \/ UNCHANGED <<cl_pc, cl_sent>>)
    /\ (cl_pc = "reload" /\ cl_pc' # "reload") =>
          /\ commands' = commands
          /\ cl_step' = "ReloadCurrentPath"
          /\ cl_pc' = "select" =>
                cl_sent' = IF current_path = None
                           THEN <<>>
                           ELSE <<Load(current_path[1],
                                       storage_manager.persistent_storage)>>

C13_ReloadOnReconnect == []C13_State /\ [][C13_Step]_vars

\* the automatic Load is out while a command is still waiting in the channel
C13_Witness ==
    /\ cl_step = "ReloadCurrentPath"
    /\ cl_pc = "select"
    /\ cl_sent = <<Load(HelloPath, "k1" :> SBoolean("true"))>>
    /\ storage_manager.session_storage = EmptyMap
    /\ Len(commands) = MaxQueued

\* C14 as stated: on a new connection the client writes no Load and no
\* Action until it has read the first ServerHello of that connection.
C14_NoRequestBeforeServerHello ==
    \A i \in 1..Len(cl_sent) :
        cl_sent[i].type \in {"Load", "Action"} => server_hello_seen

C14_State ==
    /\ cl_pc \in {"hello", "reload"} => ~server_hello_seen
    /\ (cl_step = "ReloadCurrentPath" /\ cl_sent # <<>>) =>
          /\ ~server_hello_seen
          /\ cl_sent[1].type = "Load"

C14_Step ==
    cl_step' = "RecvServerHello" =>
        /\ cl_pc = "select"
        /\ server_hello_seen'
        /\ cl_sent' = <<>>
        /\ events' = <<>>
        /\ Len(commands') >= Len(commands)
        /\ UNCHANGED <<cl_pc, current_path, storage_manager, disk>>

\* C14: the client does not wait for the ServerHello. On a new connection it
\* writes the ClientHello and then, without reading any frame, the automatic
\* Load of current_path when that is set; Load and Action commands are sent
\* whether or not a ServerHello has been read; reading a ServerHello writes
\* no frame and changes neither current_path nor storage.
C14_RequestsDoNotWaitForServerHello == []C14_State /\ [][C14_Step]_vars

\* an Action written on a connection on which no ServerHello has been read
C14_Witness ==
    /\ ~server_hello_seen
    /\ cl_step = "RecvCommandAction"
    /\ cl_sent = <<Action(HelloPath, "submit", FormState)>>
    /\ cl_first_frame = ClientHello(supported_capabilities)

\* C15: after the client has read RedirectTo{path}, current_path is path,
\* path is the storage manager's current route, local storage is empty, no
\* event was broadcast, and the one frame written is Load{path, merged
\* storage}, on the connection the redirect came in on; the session and the
\* persistent map are as before.
C15_State ==
    cl_step = "RecvRedirectTo" =>
        /\ cl_received \in InboundRedirects
        /\ current_path = Some(cl_received.path)
        /\ storage_manager.current_route = Some(cl_received.path)
        /\ storage_manager.local_storage = EmptyMap
        /\ events = <<>>
        /\ cl_pc \in {"select", "ended_err"}
        /\ cl_pc = "select" =>
              cl_sent = <<Load(cl_received.path, MergedStorage(storage_manager))>>
        /\ cl_pc = "ended_err" => cl_sent = <<>>

C15_Step ==
    cl_step' = "RecvRedirectTo" =>
        /\ cl_pc = "select" \/ UNCHANGED <<cl_pc, cl_sent>>
        /\ cl_first_frame' = cl_first_frame
        /\ storage_manager'.session_storage = storage_manager.session_storage
        /\ storage_manager'.persistent_storage = storage_manager.persistent_storage

C15_RedirectIsFollowed == []C15_State /\ [][C15_Step]_vars

\* a redirect read while the manager holds a session and a persistent value
\* for the key: the Load for the new path carries the session value
C15_Witness ==
    /\ cl_step = "RecvRedirectTo"
    /\ cl_received = RedirectTo(CounterPath)
    /\ cl_pc = "select"
    /\ current_path = Some(CounterPath)
    /\ cl_sent = <<Load(CounterPath, "k1" :> SString("a"))>>
    /\ storage_manager.persistent_storage = ("k1" :> SBoolean("true"))
    /\ storage_manager.local_storage = EmptyMap

\* C16: once the client has read Error{UpgradeRequired}, session_loop has
\* returned the ProtocolError: it wrote nothing and broadcast nothing for
\* that frame, and from then on it writes no frame, opens no connection and
\* takes no command, and every load() or action() call returns Err.
UpgradeRequiredRead == cl_step = "RecvError" /\ cl_received.code = "UpgradeRequired"

C16_State ==
    UpgradeRequiredRead =>
        /\ cl_pc = "ended_err"
        /\ cl_sent = <<>>
        /\ events = <<>>

C16_Step ==
    UpgradeRequiredRead =>
        /\ UNCHANGED <<cl_pc, cl_step, cl_received, cl_sent, events, cl_first_frame,
                       commands, current_path, storage_manager, disk>>
        /\ call_failed => call_failed'
        /\ (handles_alive /\ UNCHANGED <<handles_alive, subscribers>>) => call_failed'

C16_UpgradeRequiredIsFinal == []C16_State /\ [][C16_Step]_vars

\* after the UpgradeRequired a call on the surviving handle has failed
C16_Witness ==
    /\ UpgradeRequiredRead
    /\ cl_pc = "ended_err"
    /\ handles_alive
    /\ call_failed
    /\ current_path = Some(CounterPath)

\* the u16 of each error code
NumericCode ==
    ("BadRequest" :> 400) @@ ("NotFound" :> 404) @@ ("UpgradeRequired" :> 426)
        @@ ("InternalServerError" :> 500)

OtherErrorRead == cl_step = "RecvError" /\ cl_received.code # "UpgradeRequired"

\* C17 as stated: every inbound Error other than UpgradeRequired ends up as
\* exactly one ServerError event and the connection stays open.
C17_EveryErrorIsBroadcast ==
    OtherErrorRead =>
        /\ events = <<ServerError(NumericCode[cl_received.code], cl_received.message)>>
        /\ cl_pc = "select"

C17_State ==
    OtherErrorRead =>
        /\ cl_sent = <<>>
        /\ \/ /\ events = <<ServerError(NumericCode[cl_received.code], cl_received.message)>>
              /\ cl_pc = "select"
           \/ /\ events = <<>>
              /\ cl_pc = "ended_ok"

C17_Step ==
    OtherErrorRead' =>
        /\ UNCHANGED <<current_path, storage_manager, disk, cl_first_frame>>
        /\ UNCHANGED <<commands, handles_alive, subscribers, call_failed>> =>
              IF subscribers
              THEN events' # <<>> /\ cl_pc' = "select"
              ELSE events' = <<>> /\ cl_pc' = "ended_ok"

\* C17: an inbound Error whose code is not UpgradeRequired changes neither
\* current_path nor any storage scope and writes no frame. While the event
\* channel has a receiver it is broadcast as exactly one ServerError{numeric
\* code, message} and the connection stays open; when the channel has no
\* receiver nothing is broadcast and the session task ends (returning Ok).
C17_ErrorIsBroadcastToReceivers == []C17_State /\ [][C17_Step]_vars

\* a NotFound from the server reached the subscriber, the session goes on
C17_Witness ==
    /\ cl_step = "RecvError"
    /\ cl_received = Error("NotFound", RouteNotFoundMessage(MissingPath))
    /\ events = <<ServerError(404, <<"Route not found: ", "", "nonexistent">>)>>
    /\ cl_pc = "select"
    /\ current_path = Some(HelloPath)
    /\ storage_manager.session_storage = ("k1" :> SString("a"))

\* C18: when the client's read yields end-of-stream the session task does
\* not return: it clears session storage and goes back to connect(); and,
\* the server accepting the TCP connection again, it eventually writes
\* ClientHello on a new connection, unless the TLS handshake or the write of
\* the hello itself fails.
C18_State ==
    cl_step = "RecvEof" =>
        /\ cl_pc = "connect"
        /\ storage_manager.session_storage = EmptyMap
        /\ cl_sent = <<>>

HelloWritten ==
    /\ cl_step = "SendClientHello"
    /\ cl_sent = <<ClientHello(supported_capabilities)>>
    /\ cl_first_frame = ClientHello(supported_capabilities)

HandshakeOrWriteFailed ==
    /\ cl_pc = "ended_err"
    /\ cl_step \in {"TlsHandshakeFailed", "SendClientHello"}

WriteSteps == {"ReloadCurrentPath", "RecvCommandAction", "RecvCommandLoad",
               "RecvRedirectTo"}

\* C19: a read that fails on an established connection (IO error, oversized
\* frame, payload that does not decode) or a write that fails sends the
\* session task back to connect() with session storage cleared; the task
\* does not return.
C19_TransportErrorReconnects ==
    /\ cl_step = "RecvFailed" =>
           /\ cl_pc = "connect"
           /\ storage_manager.session_storage = EmptyMap
    /\ cl_step \in WriteSteps => cl_pc # "ended_err"

\* one call of TcpStream::connect, whatever it returned
ConnectAttempt == cl_step \in {"TcpConnectFailed", "TcpConnected"}

\* C20: in connect() a failed TCP connect never ends the session task: the
\* task sleeps and then tries again, however many attempts have failed
\* before; a failed TLS handshake ends the task with an error, and the task
\* then takes no further step, so no connect is attempted again.
C20_State ==
    /\ cl_step = "TcpConnectFailed" => cl_pc = "sleep"
    /\ cl_step = "SleepElapsed" => cl_pc = "connect"
    /\ cl_step = "TlsHandshakeFailed" => cl_pc = "ended_err"

C20_Step ==
    /\ cl_step = "TcpConnectFailed" => cl_step' \in {"TcpConnectFailed", "SleepElapsed"}
    /\ cl_step = "SleepElapsed" => (cl_step' = "SleepElapsed" \/ ConnectAttempt')
    /\ cl_step = "TlsHandshakeFailed" =>
           /\ cl_step' = "TlsHandshakeFailed"
           /\ UNCHANGED <<cl_pc, cl_sent, current_path, storage_manager, disk>>

C20_TcpRetriedTlsNot ==
    /\ []C20_State
    /\ [][C20_Step]_vars
    /\ (cl_step = "TcpConnectFailed") ~> (cl_step = "SleepElapsed")
    /\ (cl_step = "SleepElapsed") ~> ConnectAttempt

\* the handshake of a reconnection failed: the task has ended with a path
\* set and a command still queued
C20_Witness ==
    /\ cl_step = "TlsHandshakeFailed"
    /\ cl_pc = "ended_err"
    /\ current_path = Some(CounterPath)
    /\ Len(commands) = 1

\* the session task applies a Persistent Store whose save fails
FailedStore(frame) ==
    /\ frame.scope = "Persistent"
    /\ \E outcome \in SaveOutcomes \ {"ok"} : RecvStore(frame, outcome)

\* a failed save of this entry has left its mark: the entry is not in the
\* persistent file and the temp file holds what fs::write got out
StoreFailedOnDisk(key) ==
    LET file_path == get_persistent_file_path(storage_manager.origin)
    IN /\ disk[file_path].state = "absent"
       /\ disk[WithExtension(file_path, "tmp")].state # "absent"
       /\ key \in DOMAIN storage_manager.persistent_storage

\* C21 as stated: an inbound Store whose persistent write fails leaves the
\* connection open and drops the value: the client's storage and what
\* get_all_storage() returns are as before the Store.
C21_FailedStoreDropsValue ==
    [][\A frame \in InboundStores :
          FailedStore(frame) =>
              /\ cl_pc' = "select"
              /\ storage_manager' = storage_manager
              /\ get_all_storage(storage_manager') = get_all_storage(storage_manager)]_vars

\* C21 (amended): an inbound Store whose persistent write fails leaves the
\* connection open, writes no frame and broadcasts no event, and leaves the
\* persistent file as it was; but the value is kept in memory: the key has
\* the new value in the persistent map, and get_all_storage() returns it
\* unless a session or local entry of the same key shadows it.
C21_Step ==
    \A frame \in InboundStores :
        FailedStore(frame) =>
            LET file_path == get_persistent_file_path(storage_manager.origin)
                all == get_all_storage(storage_manager')
            IN /\ cl_pc' = "select"
               /\ cl_sent' = <<>>
               /\ events' = <<>>
               /\ disk'[file_path] = disk[file_path]
               /\ storage_manager'.persistent_storage =
                      MapInsert(storage_manager.persistent_storage, frame.key, frame.value)
               /\ storage_manager'.session_storage = storage_manager.session_storage
               /\ storage_manager'.local_storage = storage_manager.local_storage
               /\ frame.key \in DOMAIN all
               /\ (frame.key \notin DOMAIN storage_manager.session_storage
                   /\ frame.key \notin DOMAIN storage_manager.local_storage)
                      => all[frame.key] = frame.value

C21_FailedStoreKeepsValueInMemory == [][C21_Step]_vars

\* a Persistent Store has failed on a directory that never held a saved
\* file, and the key is in the client's storage all the same
C21_Witness ==
    /\ cl_step = "RecvStore"
    /\ cl_received = Store("Persistent", "k1", SBoolean("true"))
    /\ cl_pc = "select"
    /\ StoreFailedOnDisk("k1")
    /\ storage_manager.persistent_storage["k1"] = SBoolean("true")
    /\ get_all_storage(storage_manager)["k1"] = SBoolean("true")

\* ----------------------------------------------------------- storage claims
\* the file save_persistent_storage renames onto, and its temp file
SaveFile == get_persistent_file_path(storage_manager.origin)
TempFile == WithExtension(SaveFile, "tmp")

\* what save_persistent_storage serialises for a persistent map
JsonOf(map) == [k \in DOMAIN map |-> ToJson(map[k])]

\* C22: the persistent file never holds a partial content; every step,
\* whether the save completed or stopped after any of its file operations,
\* leaves in it exactly the map it held before or exactly the map of the
\* manager after the mutation; a save that stopped leaves the file as it was
\* and touches nothing but the temp file.
C22_State == disk[SaveFile].state # "partial"

C22_Step ==
    /\ \/ disk'[SaveFile] = disk[SaveFile]
       \/ /\ disk'[SaveFile] = JsonFile(JsonOf(storage_manager'.persistent_storage))
          /\ sm_op'.ret = EmptyMap
          /\ disk'[TempFile] = Absent
    /\ (sm_op'.name \in {"store", "clear_all_storage"} /\ sm_op'.ret # EmptyMap)
          => /\ disk'[SaveFile] = disk[SaveFile]
             /\ \A f \in DOMAIN disk : f # TempFile => disk'[f] = disk[f]

C22_PersistentWriteIsAtomic == []C22_State /\ [][C22_Step]_vars

\* a store was interrupted after an earlier one had completed: the file
\* holds the earlier map, the temp file is orphaned with a partial content
C22_Witness ==
    /\ sm_op.name = "store"
    /\ sm_op.args.scope = "Persistent"
    /\ sm_op.ret # EmptyMap
    /\ disk[SaveFile] = JsonFile("k1" :> JString("a"))
    /\ disk[TempFile] = Partial
    /\ storage_manager.persistent_storage = ("k1" :> SBoolean("true"))

\* StorageManager::get
get(self, scope, key) ==
    LET map == CASE scope = "Persistent" -> self.persistent_storage
                 [] scope = "Session" -> self.session_storage
                 [] scope = "Local" -> self.local_storage
    IN IF key \in DOMAIN map THEN Some(map[key]) ELSE None

\* C23: when store(Persistent, k, v) with a String or Boolean v has returned
\* Ok and a new StorageManager is then constructed for the same origin and
\* directory, get(Persistent, k) on the new manager is Some(v).
C23_PersistentStoreSurvivesRestart ==
    [][(/\ SmRestart
        /\ sm_op.name = "store"
        /\ sm_op.args.scope = "Persistent"
        /\ sm_op.args.value.kind \in {"String", "Boolean"}
        /\ sm_op.ret = EmptyMap)
       => get(storage_manager', "Persistent", sm_op.args.key) = Some(sm_op.args.value)]_vars

\* C24: whenever a StorageManager is constructed, for its origin and every
\* other origin, the file it saves to is not the file a manager of the other
\* origin saves to, and the file it has just loaded is not the file a manager
\* of the other origin loads; so what the other would load from the same
\* directory does not come from this manager's file.
C24_OriginsUseDistinctFiles ==
    [][SmRestart =>
          \A other \in Origins \ {storage_manager'.origin} :
              /\ get_persistent_file_path(other)
                     # get_persistent_file_path(storage_manager'.origin)
              /\ LoadFilePath(other) # LoadFilePath(storage_manager'.origin)]_vars

\* C25: a StorageManager constructed from a persistent file holds, for each
\* key of the file, Empty where the JSON value is null, Boolean where it is
\* a bool and String where it is a string, and holds no entry exactly for
\* the keys whose JSON value has another shape.
C25_LoadMapsNullBoolString ==
    [][SmRestart =>
          LET file == disk[LoadFilePath(storage_manager'.origin)]
              loaded == storage_manager'.persistent_storage
          IN file.state = "json" =>
                /\ DOMAIN loaded \subseteq DOMAIN file.map
                /\ \A k \in DOMAIN file.map :
                      CASE file.map[k].json = "Null" ->
                              k \in DOMAIN loaded /\ loaded[k] = SEmpty
                        [] file.map[k].json = "Bool" ->
                              k \in DOMAIN loaded /\ loaded[k] = SBoolean(file.map[k].s)
                        [] file.map[k].json = "String" ->
                              k \in DOMAIN loaded /\ loaded[k] = SString(file.map[k].s)
                        [] OTHER -> k \notin DOMAIN loaded]_vars

\* ------------------------------------------------------- frame reader claims
\* the length the reader decoded from its four-byte buffer
request_length == from_le_bytes(rd_bytes)

\* bytes the prefix read took from the stream
PrefixRead == Len(StreamOf(rd_frame)) - Len(rd_stream) - Len(rd_buffer.data)

\* the reader is past its size check
PastSizeCheck == rd_pc \notin {"read_prefix", "check_length"} /\ rd_result # ErrIoError

\* C26: a length prefix N read in full is the length the reader checks; when
\* it is above 10,485,760 the reader returns MessageTooLarge{size: N, max:
\* 10485760} with no payload buffer allocated and no payload byte taken from
\* the stream, and handle_connection ends the connection with the error;
\* when it is above 0 and at most 10,485,760 the size check passes and the
\* reader goes on to allocate the buffer and read the payload.
C26_State ==
    /\ (rd_pc # "read_prefix" /\ PrefixRead = 4) => request_length = rd_frame.length
    /\ (PastSizeCheck /\ request_length > 10485760) =>
           /\ rd_result = ErrMessageTooLarge(request_length, 10485760)
           /\ rd_pc = "closed_err"
           /\ rd_buffer = NoBuffer
           /\ Len(rd_stream) >= rd_frame.payload_sent
    /\ (PastSizeCheck /\ request_length > 0 /\ request_length <= 10485760) =>
           /\ rd_result.type # "MessageTooLarge"
           /\ rd_buffer.len = request_length
    /\ rd_result.type = "MessageTooLarge" => request_length > 10485760

Returned == rd_pc \in {"handle_request", "closed_ok", "closed_err"}

\* C27: when the read of the length prefix has taken more than 0 and fewer
\* than 4 bytes, or the read of the payload fewer bytes than the buffer is
\* long, the reader goes no further than returning an IO error: it allocates
\* no buffer for a partial prefix, decodes no partly filled buffer and does
\* not return a clean end of stream.
C27_ShortReadIsIoError ==
    /\ (rd_pc \notin {"read_prefix", "check_length"} /\ PrefixRead > 0 /\ PrefixRead < 4) =>
           /\ rd_result = ErrIoError
           /\ rd_buffer = NoBuffer
    /\ (Returned /\ Len(rd_buffer.data) < rd_buffer.len) => rd_result = ErrIoError

\* --------------------------------------------------- connection loop claims
\* what a step leaves alone when it neither handles a request nor writes
NothingHandledOrWritten(c) ==
    /\ sent'[c] = sent[c]
    /\ first_frame'[c] = first_frame[c]
    /\ message_count'[c] = message_count[c]
    /\ request'[c] = request[c]
    /\ script'[c] = script[c]
    /\ context'[c] = context[c]
    /\ capabilities'[c] = capabilities[c]

\* C28: when receive_client_message returns an error, handle_connection
\* hands no request to a route handler, writes no frame and ends its loop
\* with the error; when it returns Ok(None) the loop ends cleanly; and a
\* connection that has ended takes no further step.
C28_Step ==
    \A c \in ConnIds :
        /\ ReceiveError(c) => (srv_pc'[c] = "closed_err" /\ NothingHandledOrWritten(c))
        /\ ReceiveEof(c) => (srv_pc'[c] = "closed_ok" /\ NothingHandledOrWritten(c))
        /\ srv_pc[c] \in {"closed_ok", "closed_err"} =>
               (srv_pc'[c] = srv_pc[c] /\ NothingHandledOrWritten(c))

C28_State ==
    \A c \in ConnIds :
        srv_pc[c] \in {"closed_ok", "closed_err"} => script[c] = <<>>

C28_ReadErrorEndsConnection == []C28_State /\ [][C28_Step]_vars

\* a read failed on a connection whose stream was never reset, after one
\* request had been answered: the loop ended with the error and its one
\* frame is all that was written
C28_Witness ==
    \E c \in ConnIds :
        /\ srv_pc[c] = "closed_err"
        /\ ~stream_broken[c]
        /\ message_count[c] = 1
        /\ request[c] = Load(HelloPath, EmptyMap)
        /\ Len(sent[c]) = 1
        /\ sent[c][1].type = "Render"

\* ---------------------------------------------------------------- C29
\* the segments of the pattern and the non-empty segments of the path
PatternSegments == RoutePatternNew(rt_pattern).segments

PathSegments == FilterNonEmpty(rt_path)

Placeholders == {i \in 1..Len(PatternSegments) : PatternSegments[i].kind = "Param"}

Literals == {i \in 1..Len(PatternSegments) : PatternSegments[i].kind = "Literal"}

PlaceholderNames == {PatternSegments[i].name : i \in Placeholders}

\* what C29 says of keys, literals and segment counts
C29_KeysLiteralsCount ==
    /\ (rt_result.called /\ Len(PathSegments) # Len(PatternSegments)) => ~rt_result.matched
    /\ (rt_result.called /\ rt_result.matched) =>
          /\ DOMAIN rt_result.params = PlaceholderNames
          /\ \A i \in Literals : PatternSegments[i].name = PathSegments[i]

C30_TrailingSlashIsNotFound ==
    \A c \in ConnIds :
        (request[c].type = "Load" /\ request[c].path = HelloSlashPath /\ sent[c] # <<>>) =>
            /\ ~matches(RoutePatternNew(HelloPath), request[c].path).matched
            /\ sent[c] = <<Error("NotFound", RouteNotFoundMessage(request[c].path))>>

\* ---------------------------------------------------------------- C31
\* the positions in routes() of the routes whose pattern matches the path
MatchingRoutes(path) ==
    {i \in 1..Len(Routes) : matches(RoutePatternNew(RoutePathOf(Routes[i])), path).matched}

\* what Load gets from the route declared at position i
RenderedBy(i, req) ==
    LET rendered == RenderOf(Routes[i],
                             matches(RoutePatternNew(RoutePathOf(Routes[i])), req.path).params,
                             req.storage)
    IN IF rendered.kind = "Document"
       THEN <<Render(rendered.document)>>
       ELSE <<RedirectTo(rendered.path)>>

\* C31: Application::route(path) returns the first route of routes(), in
\* declaration order, whose pattern matches the path, with that pattern's
\* params, even when a later route matches too, and returns None iff no
\* pattern matches; a Load is answered by that first route.
C31_FirstMatchWins ==
    \A c \in ConnIds :
        request[c].type \in {"Load", "Action"} =>
            LET hits == MatchingRoutes(request[c].path)
                r == route(request[c].path)
            IN /\ r.found <=> hits # {}
               /\ r.found =>
                    \E i \in hits :
                        /\ \A j \in hits : i <= j
                        /\ r.route = Routes[i]
                        /\ r.params = matches(RoutePatternNew(RoutePathOf(Routes[i])),
                                              request[c].path).params
                        /\ (request[c].type = "Load" /\ sent[c] # <<>>)
                              => sent[c] = RenderedBy(i, request[c])
               /\ (~r.found /\ sent[c] # <<>>) => sent[c] = <<NotFoundFrame(request[c].path)>>

\* "/todos/new" matches both "/todos/new" and the later "/todos/:id", and the
\* Load was answered by the first
C31_Witness ==
    \E c \in ConnIds :
        /\ request[c] = Load(TodoNewPath, EmptyMap)
        /\ Cardinality(MatchingRoutes(TodoNewPath)) = 2
        /\ sent[c] = <<Render(<<"New todo">>)>>

\* ---------------------------------------------------------------- C32
\* everything the server keeps for one connection
ConnectionState(c) ==
    <<srv_pc[c], capabilities[c], message_count[c], request[c], context[c], script[c],
      result[c], stream_broken[c], sent[c], first_frame[c], hello_seen[c], hello_first[c],
      prev[c]>>

C32_State ==
    \A c \in ConnIds :
        /\ ~hello_seen[c] => capabilities[c] = {}
        /\ (srv_pc[c] = "receive" /\ message_count[c] > 0 /\ ~stream_broken[c])
              => sent[c] = ReplyOf(request[c], capabilities[c])

C32_Step ==
    \A c \in ConnIds :
        /\ ConnectionState(c)' # ConnectionState(c)
              => \A d \in ConnIds \ {c} : ConnectionState(d)' = ConnectionState(d)
        /\ capabilities'[c] # capabilities[c]
              => /\ srv_pc[c] = "handle_request"
                 /\ request[c].type = "ClientHello"
                 /\ capabilities'[c] = supported_capabilities \cap request[c].capabilities

\* C32: with two connections handled concurrently under any interleaving,
\* every step of one connection leaves the other connection's state and
\* frames as they were, a connection's capability set changes only through a
\* ClientHello on that connection, and the frames written for a request are
\* those its own path, storage and the connection's own capability set give.
C32_ConnectionsAreIndependent == []C32_State /\ [][C32_Step]_vars

\* connection 1 negotiated core and its gated action passed, while the same
\* action on connection 2, which sent no ClientHello, was refused; a Load on
\* either is answered from its own storage
C32_Witness ==
    /\ prev[1].request = ClientHello({CORE_V1})
    /\ request[1] = Action(GatedPath, "use_core", EmptyMap)
    /\ sent[1] = <<Store("Local", "gated", SBoolean("true"))>>
    /\ srv_pc[1] = "receive"
    /\ prev[2].request = Action(GatedPath, "use_core", EmptyMap)
    /\ IsError(prev[2].sent[1], "UpgradeRequired")
    /\ request[2] = Load(CounterPath, CountOne)
    /\ sent[2] = <<Render(<<"Count: ", "1">>)>>

\* ---------------------------------------------------------------- C33
\* a Render, or an Error other than UpgradeRequired, is read while the event
\* channel has no receiver
BroadcastWithoutSubscriber ==
    /\ ~subscribers
    /\ \/ \E frame \in InboundRenders : RecvRender(frame)
       \/ \E frame \in InboundErrors : frame.code # "UpgradeRequired" /\ RecvError(frame)

C33_Step ==
    /\ BroadcastWithoutSubscriber =>
          /\ cl_pc' = "ended_ok"
          /\ events' = <<>>
          /\ cl_sent' = <<>>
    /\ ClientEnded => UNCHANGED <<cl_pc, cl_step, cl_sent, events, storage_manager, disk>>

C33_State ==
    (cl_step = "RecvRender" /\ events = <<>>) => cl_pc = "ended_ok"

\* C33: when the broadcast of a DocumentUpdated or ServerError event fails
\* because the event channel has no receiver (as for a Render that arrives
\* before any event_receiver() call: the session starts with none), the
\* session task ends, and an ended task takes no further step: it does not
\* reconnect.
C33_BroadcastFailureEndsSession == []C33_State /\ [][C33_Step]_vars

\* a Render arrived while the handles were alive but nobody had subscribed,
\* and the task has ended
C33_Witness ==
    /\ cl_step = "RecvRender"
    /\ cl_received = Render(<<"Hello from real server!">>)
    /\ handles_alive
    /\ ~subscribers
    /\ events = <<>>
    /\ cl_pc = "ended_ok"

\* ---------------------------------------------------------------- C34
\* C34: after all NetworkSession handles are dropped the session task
\* eventually ends, whatever state it is in at that moment, including while
\* it is retrying a TCP connect to a server that cannot be reached.  (The
\* claim adds that the task ends by returning Ok; already ending at all fails.)
C34_DroppedHandlesEndTask == ~handles_alive ~> ClientEnded

\* ---------------------------------------------------------------- C35
\* the ClientHello arm has answered the request of connection c
HelloAnswered(c) ==
    /\ srv_pc[c] = "handle_request"
    /\ request[c].type = "ClientHello"
    /\ srv_pc'[c] = "receive"

C35_State ==
    \A c \in ConnIds :
        /\ ~hello_seen[c] => capabilities[c] = {}
        /\ (request[c].type = "ClientHello" /\ srv_pc[c] = "receive")
              => capabilities[c] = supported_capabilities \cap request[c].capabilities
        /\ (request[c].type # "ClientHello" /\ prev[c].request.type = "ClientHello")
              => capabilities[c] = supported_capabilities \cap prev[c].request.capabilities
        /\ srv_pc[c] = "handler" => context[c].capabilities = capabilities[c]

C35_Step ==
    \A c \in ConnIds :
        /\ HelloAnswered(c)
              => capabilities'[c] = supported_capabilities \cap request[c].capabilities
        /\ ~HelloAnswered(c) => capabilities'[c] = capabilities[c]
        /\ (srv_pc[c] = "handle_request" /\ srv_pc'[c] = "handler")
              => context'[c].capabilities = capabilities[c]

\* C35: a connection's capability set starts empty and, after any sequence
\* of requests, is the intersection computed for the most recent ClientHello
\* answered on that connection: each ClientHello replaces the set, Load and
\* Action requests never change it, and the Context of an Action handler
\* carries exactly the current set.
C35_CapabilitiesFollowLastHello == []C35_State /\ [][C35_Step]_vars

\* a second ClientHello offering nothing the server supports replaced the
\* set negotiated by the first
C35_Witness ==
    \E c \in ConnIds :
        /\ prev[c].request = ClientHello({CORE_V1})
        /\ prev[c].sent = <<ServerHello({CORE_V1})>>
        /\ request[c] = ClientHello({STORAGE_ARRAYS})
        /\ sent[c] = <<ServerHello({})>>
        /\ capabilities[c] = {}

\* ---------------------------------------------------------------- C36
\* the frames of the context.store and context.redirect calls of a handler,
\* one per call, in call order
RECURSIVE HelperFrames(_)
HelperFrames(steps) ==
    IF steps = <<>> THEN <<>>
    ELSE LET op == Head(steps)
         IN (CASE op.op = "store" -> <<Store(op.scope, op.key, op.value)>>
               [] op.op = "redirect" -> <<RedirectTo(op.path)>>
               [] OTHER -> <<>>) \o HelperFrames(Tail(steps))

\* the handler of connection c returns Ok
ReturnsOk(c) == srv_pc[c] = "handler" /\ script[c] = <<>> /\ srv_pc'[c] = "receive"

C36_Step ==
    \A c \in ConnIds :
        /\ ReturnsOk(c) =>
              /\ route(request[c].path).found
              /\ sent'[c] = sent[c]
              /\ sent[c] = HelperFrames(HandlerScript(route(request[c].path).route,
                                                      request[c].action, request[c].storage))
        /\ (srv_pc[c] = "handler" /\ script[c] # <<>> /\ Head(script[c]).op \in {"store", "redirect"}
            /\ ~stream_broken[c] /\ script'[c] # script[c])
              => /\ Len(sent'[c]) = Len(sent[c]) + 1
                 /\ <<Last(sent'[c])>> = HelperFrames(<<Head(script[c])>>)

\* C36: for an Action on a matched route whose handler returns Ok, the
\* frames the server writes for that request are exactly the frames of the
\* handler's context.store and context.redirect calls, one frame per call
\* and in call order, with no terminal or additional frame; a handler that
\* calls no helper produces zero frames.
C36_ActionWritesOnlyHelperFrames == [][C36_Step]_vars

\* one handler made three calls and returned Ok with three frames, another
\* made none and the request after it is being read with nothing written
C36_Witness ==
    \E c \in ConnIds :
        /\ prev[c].request = Action(MultiPath, "save_and_go", EmptyMap)
        /\ prev[c].sent = <<Store("Persistent", "saved", SString("x")),
                            Store("Session", "step", SString("1")),
                            RedirectTo(HelloPath)>>
        /\ request[c] = Action(HelloPath, "click", EmptyMap)
        /\ srv_pc[c] = "receive"
        /\ ~stream_broken[c]
        /\ sent[c] = <<>>

\* ---------------------------------------------------------------- C37
\* C37: whenever the session task is waiting for its next event (a command
\* or an inbound frame), its current_path equals the StorageManager's
\* current_route; both are None when the task starts, and every Load
\* command, inbound RedirectTo and reconnect re-Load leaves them equal.
C37_PathEqualsRoute ==
    /\ cl_step = "new" => (current_path = None /\ storage_manager.current_route = None)
    /\ cl_pc = "select" => current_path = storage_manager.current_route
    /\ (cl_step \in {"RecvCommandLoad", "RecvRedirectTo", "ReloadCurrentPath"})
          => current_path = storage_manager.current_route

\* a redirect moved both to "/counter", and the task is waiting again
C37_Witness ==
    /\ cl_pc = "select"
    /\ cl_step = "RecvRedirectTo"
    /\ cl_sent = <<Load(CounterPath, get_all_storage(storage_manager))>>
    /\ current_path = Some(CounterPath)
    /\ storage_manager.current_route = Some(CounterPath)

\* ---------------------------------------------------------------- C38
\* the last step of the session task was one that sends a Load
LoadStep ==
    \/ cl_step \in {"RecvCommandLoad", "RecvRedirectTo"}
    \/ cl_step = "ReloadCurrentPath" /\ current_path # None

\* C38: local storage is empty whenever the client sends a Load: a Load
\* command, an inbound RedirectTo and a reconnect re-Load clear local storage
\* even when the path equals the current route, so every Load frame carries
\* no local-scope entry: its storage is persistent overlaid by session.
C38_LoadCarriesNoLocalStorage ==
    /\ LoadStep =>
          /\ storage_manager.local_storage = EmptyMap
          /\ cl_sent \in {<<>>, <<Load(current_path[1],
                                       MapExtend(storage_manager.persistent_storage,
                                                 storage_manager.session_storage))>>}
    /\ \A i \in 1..Len(cl_sent) : cl_sent[i].type = "Load" => LoadStep

\* a Load command for the route the client is already on was sent while the
\* persistent scope held "a" for the key: the frame carries that value
C38_Witness ==
    /\ cl_step = "RecvCommandLoad"
    /\ cl_received = NoFrame
    /\ current_path = Some(HelloPath)
    /\ storage_manager.persistent_storage = ("k1" :> SString("a"))
    /\ storage_manager.session_storage = EmptyMap
    /\ cl_sent = <<Load(HelloPath, "k1" :> SString("a"))>>

\* ---------------------------------------------------------------- C39
\* the session task takes an Action command from the command channel
ActionDequeued == \E ok \in BOOLEAN : RecvCommandAction(ok)

C39_Step ==
    ActionDequeued =>
        /\ UNCHANGED <<current_path, storage_manager, disk>>
        /\ events' = <<>>
        /\ IF current_path = None
           THEN cl_sent' = <<>> /\ cl_pc' = cl_pc
           ELSE \/ /\ cl_sent' = <<Action(current_path[1], Head(commands).action,
                                          Head(commands).storage)>>
                   /\ cl_pc' = "select"
                \/ /\ cl_sent' = <<>>
                   /\ cl_pc' = "ended_err"

\* C39: an Action command dequeued while current_path is None is dropped: no
\* frame is written and current_path and all storage scopes stay as they
\* were; an Action dequeued while current_path is Some(p) is sent as exactly
\* one Action frame whose path is p (or, the write failing, as none, and the
\* task ends).
C39_ActionWithoutPathIsDropped == [][C39_Step]_vars

\* the first command of a session was an Action: it was dropped and the task
\* waits for the next event
C39_Witness ==
    /\ cl_step = "RecvCommandAction"
    /\ current_path = None
    /\ cl_sent = <<>>
    /\ cl_pc = "select"
    /\ cl_first_frame = ClientHello(supported_capabilities)

\* ---------------------------------------------------------------- C40
\* load() or action() appends a command to the channel
Enqueued == \E command \in UiCommands : commands' = Append(commands, command)

\* the session task takes the command at the head of the channel
Dequeued ==
    /\ commands # <<>>
    /\ commands' = Tail(commands)
    /\ cl_pc = "select"
    /\ cl_step' = IF Head(commands).type = "Load" THEN "RecvCommandLoad" ELSE "RecvCommandAction"

\* the frame a dequeued command is sent as
FrameOf(command) ==
    IF command.type = "Load"
    THEN Load(command.path, get_all_storage(storage_manager'))
    ELSE Action(IF current_path # None THEN current_path[1] ELSE <<>>,
                command.action, command.storage)

\* the channel changes only by an append at its end or by the session task,
\* waiting in select!, taking its head
C40_Fifo == commands' # commands => (Enqueued \/ Dequeued)

\* select! is entered only from the re-Load step, which follows the
\* ClientHello of the same connection
C40_AfterHelloAndReload ==
    (cl_pc # "select" /\ cl_pc' = "select") =>
        /\ cl_pc = "reload"
        /\ cl_step = "SendClientHello"
        /\ cl_sent = <<ClientHello(supported_capabilities)>>
        /\ commands' = commands
        /\ current_path # None
              => cl_sent' = <<Load(current_path[1], get_all_storage(storage_manager'))>>

\* C40 as stated: commands enqueued while the session is disconnected or
\* connecting are not lost and not reordered: on an established connection
\* they are dequeued in FIFO order and each is sent on it, after that
\* connection's ClientHello and the automatic re-Load.
C40_Step_EverySent ==
    /\ C40_Fifo
    /\ C40_AfterHelloAndReload
    /\ (Dequeued /\ commands' # commands /\ cl_pc' = "select")
          => cl_sent' = <<FrameOf(Head(commands))>>

C40_EveryQueuedCommandIsSent == [][C40_Step_EverySent]_vars

C40_Step ==
    /\ C40_Fifo
    /\ C40_AfterHelloAndReload
    /\ (Dequeued /\ commands' # commands /\ cl_pc' = "select")
          => IF Head(commands).type = "Action" /\ current_path = None
             THEN cl_sent' = <<>>
             ELSE cl_sent' = <<FrameOf(Head(commands))>>

\* C40: commands enqueued while the session is disconnected or connecting
\* stay in the channel in order: nothing but the session task waiting in
\* select! removes a command, always the oldest, and select! is reached on a
\* connection only after that connection's ClientHello and the automatic
\* re-Load.  A dequeued Load, and a dequeued Action when current_path is
\* Some, is sent on the connection; an Action dequeued while current_path is
\* None is dropped without a frame.
C40_QueuedCommandsKeepOrder == [][C40_Step]_vars

\* before any ServerHello, on a connection that began with ClientHello, the
\* older of two queued commands has gone out and the younger is still queued
C40_Witness ==
    /\ cl_step = "RecvCommandLoad"
    /\ cl_first_frame = ClientHello(supported_capabilities)
    /\ ~server_hello_seen
    /\ cl_sent = <<Load(HelloPath, get_all_storage(storage_manager))>>
    /\ commands = <<CommandAction("submit", FormState)>>
    /\ cl_pc = "select"

====
